---- MODULE Spec2Model ----
(***************************************************************************)
(* The TFTP server of pxe_tools: the per-transfer session                  *)
(* (pxe_tools/tftp/server.py, TFTPServerSession) and the event loop that   *)
(* owns the listener, the reactor and the session map                      *)
(* (TFTPServer.serve_forever).                                             *)
(*                                                                         *)
(* A datagram is a record holding its decoded fields; a datagram too short *)
(* to hold an opcode has no opcode field.  File contents are the byte      *)
(* offsets themselves: a payload is the range [start, start+len) of its    *)
(* file, so two payloads are equal exactly when they are the same bytes of *)
(* a file whose bytes are pairwise distinct.  Text (option values, error   *)
(* messages) is a sequence of pieces; an option value is its sequence of   *)
(* characters.                                                             *)
(***************************************************************************)
EXTENDS Integers, Sequences, FiniteSets, TLC

\* ------------------------------------------------------------------ bounds

\* Datagrams a client sends to its session socket.
MaxRecv == 4
\* Of these, the ones that are not the answer to what the server sent last.
MaxOdd == 1
\* Times a session is left without a packet for longer than its timeout.
MaxIdle == 1
\* Options carried by a request of the negotiation specification.
MaxOpts == 2
\* Bytes of a datagram after its opcode, in the codec specification.
MaxBody == 7
\* Bytes of a payload, in the netascii specification.
MaxText == 5

\* ------------------------------------------------------- program constants

DEFAULT_BLOCK_SIZE == 512
DEFAULT_WINDOW_SIZE == 1
DEFAULT_TIMEOUT == 30
DEFAULT_MAX_RETRIES == 3
MIN_BLKSIZE == 8
MAX_BLKSIZE == 65464
MIN_TIMEOUT == 1
MAX_TIMEOUT == 255
MIN_WINDOWSIZE == 1
MAX_WINDOWSIZE == 65535
\* struct format "H": an unsigned 16-bit field
MAX_USHORT == 65535

RRQ_OPCODE == 1
WRQ_OPCODE == 2
DATA_OPCODE == 3
ACK_OPCODE == 4
ERROR_OPCODE == 5
OACK_OPCODE == 6

NOT_DEFINED == 0
FILE_NOT_FOUND == 1
ACCESS_VIOLATION == 2
DISK_FULL == 3
ILLEGAL_OP == 4

\* Python's None where the code holds a number or None.
None == -1

\* ------------------------------------------------------------------- text

Digits == <<"0", "1", "2", "3", "4", "5", "6", "7", "8", "9">>

IsDigit(ch) == \E d \in 1..10 : Digits[d] = ch

DigitValue(ch) == (CHOOSE d \in 1..10 : Digits[d] = ch) - 1

RECURSIVE DigitsValue(_, _, _)
DigitsValue(v, i, acc) ==
    IF i > Len(v) THEN acc
    ELSE DigitsValue(v, i + 1, acc * 10 + DigitValue(v[i]))

\* int(text): an optional sign and at least one decimal digit, or ValueError.
PyInt(v) ==
    LET neg == Len(v) > 0 /\ v[1] = "-"
        body == IF neg THEN Tail(v) ELSE v
    IN  IF Len(body) = 0 \/ \E i \in 1..Len(body) : ~IsDigit(body[i])
        THEN [ok |-> FALSE, val |-> 0]
        ELSE [ok |-> TRUE,
              val |-> IF neg THEN 0 - DigitsValue(body, 1, 0)
                      ELSE DigitsValue(body, 1, 0)]

\* str(n) and "{0}".format(n) of an integer.
RECURSIVE PyStr(_)
PyStr(n) ==
    IF n < 0 THEN <<"-">> \o PyStr(0 - n)
    ELSE IF n < 10 THEN <<Digits[n + 1]>>
    ELSE PyStr(n \div 10) \o <<Digits[(n % 10) + 1]>>

\* str.lower() on the option names of the model.
Lower(name) ==
    CASE name = "BLKSIZE" -> "blksize"
      [] name = "Tsize" -> "tsize"
      [] OTHER -> name

\* ------------------------------------------------------------- exceptions

NoExc == [kind |-> "none", code |-> NOT_DEFINED, msg |-> <<>>]

\* HandlerException(msg, error_code)
HandlerException(msg, error_code) ==
    [kind |-> "HandlerException", code |-> error_code, msg |-> msg]

\* Any exception that is not a HandlerException; str(e) is msg.
OtherException(kind, msg) == [kind |-> kind, code |-> NOT_DEFINED, msg |-> msg]

Raised(e) == e.kind # "none"

\* What socket.send() raises when the client's port is closed, and when there
\* is no route to the client.
ConnectionRefused == OtherException("ConnectionRefusedError", <<"[Errno 111] Connection refused">>)
NetworkUnreachable == OtherException("OSError", <<"[Errno 101] Network is unreachable">>)

\* ---------------------------------------------------------------- packets

DataPacket(block_number, data) ==
    [op |-> "DATA", block |-> block_number, data |-> data]

AcknowledgementPacket(block_number) == [op |-> "ACK", block |-> block_number]

ErrorPacket(error_code, error_message) ==
    [op |-> "ERROR", code |-> error_code, msg |-> error_message]

OptionsAcknowledgementPacket(options) == [op |-> "OACK", options |-> options]

TFTPOption(name, value) == [name |-> name, value |-> value]

\* TFTPOption.build_from_strs: the strings taken two by two.
build_from_strs(s) ==
    [i \in 1..(Len(s) \div 2) |-> TFTPOption(s[2 * i - 1], s[2 * i])]

OPCODE_MAP == {RRQ_OPCODE, WRQ_OPCODE, DATA_OPCODE, ACK_OPCODE, ERROR_OPCODE, OACK_OPCODE}

\* ReadRequestPacket.decode / WriteRequestPacket.decode on the strings of the
\* datagram: at least two and an even number of them.
RequestDecode(op, d) ==
    IF Len(d.params) < 2 \/ Len(d.params) % 2 # 0
    THEN [exc |-> OtherException("TFTPInvalidProtocolException", <<"Bad request packet.">>),
          pkt |-> [op |-> "none"]]
    ELSE [exc |-> NoExc,
          pkt |-> [op |-> op, filename |-> d.params[1], mode |-> d.params[2],
                   options |-> build_from_strs(SubSeq(d.params, 3, Len(d.params)))]]

\* decode_tftp_datagram: the packet, or the exception it raises.
decode_tftp_datagram(d) ==
    IF "opcode" \notin DOMAIN d
    THEN [exc |-> OtherException("struct.error", <<"unpack requires a buffer of 2 bytes">>),
          pkt |-> [op |-> "none"]]
    ELSE IF d.opcode \notin OPCODE_MAP
    THEN [exc |-> OtherException("TypeError", <<"Unknown TFTP opcode: ">> \o PyStr(d.opcode)),
          pkt |-> [op |-> "none"]]
    ELSE CASE d.opcode = RRQ_OPCODE -> RequestDecode("RRQ", d)
           [] d.opcode = WRQ_OPCODE -> RequestDecode("WRQ", d)
           [] d.opcode = DATA_OPCODE ->
                [exc |-> NoExc, pkt |-> DataPacket(d.block, d.data)]
           [] d.opcode = ACK_OPCODE ->
                [exc |-> NoExc, pkt |-> AcknowledgementPacket(d.block)]
           [] d.opcode = ERROR_OPCODE ->
                [exc |-> NoExc, pkt |-> ErrorPacket(d.code, d.msg)]
           [] d.opcode = OACK_OPCODE ->
                [exc |-> NoExc, pkt |-> OptionsAcknowledgementPacket(build_from_strs(d.params))]

\* DataPacket.encode: struct.pack("!HH", ...) takes a block number of 16 bits.
DataEncodable(block_number) == 0 <= block_number /\ block_number <= MAX_USHORT

\* --------------------------------------------------------------- handlers

\* The files the read handler factory serves: the length of each, whether
\* the handler reports it, and what the factory, open() and read() raise.
\* read(start, end) raises on a range starting at or after bad_from.
ReadFile(len, reports, fexc, oexc, rexc, bad_from) ==
    [length |-> len, reports_length |-> reports, factory_exc |-> fexc,
     open_exc |-> oexc, read_exc |-> rexc, bad_from |-> bad_from]

GoodFile(len) == ReadFile(len, TRUE, NoExc, NoExc, NoExc, 0)

ReadFiles ==
    [n \in {"/foobar", "/empty", "/block", "/two", "/big", "/sixteen", "/nolen",
            "/denied", "/missing", "/broken", "/badread", "/ioerr"} |->
        CASE n = "/foobar" -> GoodFile(9)
          [] n = "/empty" -> GoodFile(0)
          [] n = "/block" -> GoodFile(512)
          [] n = "/two" -> GoodFile(1024)
          [] n = "/big" -> GoodFile(1100)
          [] n = "/sixteen" -> GoodFile(16)
          [] n = "/nolen" -> ReadFile(9, FALSE, NoExc, NoExc, NoExc, 0)
          [] n = "/denied" ->
                ReadFile(9, TRUE, HandlerException(<<"Access denied">>, ACCESS_VIOLATION),
                         NoExc, NoExc, 0)
          [] n = "/missing" ->
                ReadFile(9, TRUE, NoExc,
                         HandlerException(<<"File not found">>, FILE_NOT_FOUND), NoExc, 0)
          [] n = "/broken" ->
                ReadFile(9, TRUE, NoExc,
                         OtherException("TFTPException", <<"No such file: /broken">>), NoExc, 0)
          [] n = "/badread" ->
                ReadFile(600, TRUE, NoExc, NoExc,
                         HandlerException(<<"Read failed">>, ACCESS_VIOLATION), 512)
          [] n = "/ioerr" ->
                ReadFile(600, TRUE, NoExc, NoExc,
                         OtherException("OSError", <<"Input/output error">>), 512)]

\* The read handler factory.  A name it does not know fails in open(), as the
\* handlers of the repository do.
read_handler_factory(filename) ==
    IF filename \in DOMAIN ReadFiles THEN ReadFiles[filename]
    ELSE ReadFile(0, FALSE, NoExc,
                  OtherException("TFTPException", <<"No such file: ", filename>>), NoExc, 0)

\* handler.read(start, end): the bytes [start, end) of the file, fewer at its
\* end, none past it.
HandlerRead(h, start, end) ==
    IF Raised(h.read_exc) /\ start >= h.bad_from
    THEN [exc |-> h.read_exc, data |-> [start |-> start, len |-> 0]]
    ELSE LET stop == IF end < h.length THEN end ELSE h.length
         IN  [exc |-> NoExc,
              data |-> [start |-> start, len |-> IF stop > start THEN stop - start ELSE 0]]

\* handler.length
HandlerLength(h) == IF h.reports_length THEN h.length ELSE None

\* A faulty disable_factory: it hands out a handler that accepts everything.
PermissiveFactory == [factory_exc |-> NoExc, open_exc |-> NoExc, write_exc |-> NoExc]

\* disable_factory
disable_factory ==
    [factory_exc |-> HandlerException(<<"Transfer not allowed">>, ILLEGAL_OP),
     open_exc |-> NoExc, write_exc |-> NoExc]

\* A write handler factory that accepts: what open() and write() raise.
WriteFiles ==
    [n \in {"/upload", "/readonly", "/full", "/wbroken"} |->
        CASE n = "/upload" -> [factory_exc |-> NoExc, open_exc |-> NoExc, write_exc |-> NoExc]
          [] n = "/readonly" ->
                [factory_exc |-> NoExc,
                 open_exc |-> HandlerException(<<"Access violation">>, ACCESS_VIOLATION),
                 write_exc |-> NoExc]
          [] n = "/full" ->
                [factory_exc |-> NoExc, open_exc |-> NoExc,
                 write_exc |-> HandlerException(<<"Disk full">>, DISK_FULL)]
          [] n = "/wbroken" ->
                [factory_exc |-> NoExc, open_exc |-> NoExc,
                 write_exc |-> OtherException("OSError", <<"Input/output error">>)]]

accept_factory(filename) ==
    IF filename \in DOMAIN WriteFiles THEN WriteFiles[filename] ELSE WriteFiles["/upload"]

\* The server's write_handler_factory applied to a file name.
write_handler_factory(factory, filename) ==
    IF factory = "disable_factory" THEN disable_factory ELSE accept_factory(filename)

\* ---------------------------------------------------------------- session

NoHandler == [present |-> FALSE]

\* TFTPServerSession.__init__, and the socket setup() creates, binds and
\* connects.  idle stands for timed_out: more than timeout seconds have gone
\* by since _last_seen.
NewSession(remote_addr) ==
    [remote_addr |-> remote_addr, max_retries |-> DEFAULT_MAX_RETRIES,
     sock |-> TRUE, done |-> FALSE, mode |-> "none", handler |-> NoHandler,
     block_size |-> DEFAULT_BLOCK_SIZE, window_size |-> DEFAULT_WINDOW_SIZE,
     timeout |-> DEFAULT_TIMEOUT, last_packet_received |-> None,
     last_block_num |-> None, final_block_sent |-> FALSE, retries |-> 0,
     idle |-> FALSE, send_errors |-> <<>>]

\* self._sock.send(): the call raises when an error waits on the socket
\* (send_errors), the first of them; nothing goes out after the packets of out.
SendRaises(s) == s.send_errors # <<>>
SendRaised(s, out) ==
    [s |-> [s EXCEPT !.send_errors = Tail(@)], out |-> out, exc |-> Head(s.send_errors)]

\* What a call on a session leaves: the session, the packets it sent in order,
\* the exception that left the call, the handler's open()/close() calls and the
\* payloads handed to handler.write().
Result(s, out, exc, calls, written) ==
    [s |-> s, out |-> out, exc |-> exc, calls |-> calls, written |-> written]

\* A faulty _send_error: the ERROR is sent, the session is not marked done.
SendErrorNotDone(s, error_code, message) ==
    [s |-> s,
     out |-> IF s.sock THEN <<ErrorPacket(error_code, message)>> ELSE <<>>,
     exc |-> NoExc]

\* _send_error: the session is marked done after the send, so not when the
\* send raises.
_send_error(s, error_code, message) ==
    IF s.sock /\ SendRaises(s) THEN SendRaised(s, <<>>)
    ELSE [s |-> [s EXCEPT !.done = TRUE],
          out |-> IF s.sock THEN <<ErrorPacket(error_code, message)>> ELSE <<>>,
          exc |-> NoExc]

\* A faulty loop of _send_read_data: a block that reaches the end of the file
\* is taken for the final block, so no empty block follows a full one.
RECURSIVE ReadLoopStopsAtEnd(_, _, _, _)
ReadLoopStopsAtEnd(s, bn, stop, out) ==
    IF bn >= stop \/ s.handler = NoHandler THEN [s |-> s, out |-> out, exc |-> NoExc]
    ELSE LET r == HandlerRead(s.handler, bn * s.block_size, (bn + 1) * s.block_size)
             short == r.data.len < s.block_size \/ (bn + 1) * s.block_size >= s.handler.length
             s1 == [s EXCEPT !.last_block_num = bn + 1, !.final_block_sent = (@ \/ short)]
             out1 == Append(out, DataPacket(bn + 1, r.data))
         IN  IF Raised(r.exc) THEN [s |-> s, out |-> out, exc |-> r.exc]
             ELSE IF short THEN [s |-> s1, out |-> out1, exc |-> NoExc]
             ELSE ReadLoopStopsAtEnd(s1, bn + 1, stop, out1)

\* The for loop of _send_read_data from block index bn up to stop.
RECURSIVE ReadLoop(_, _, _, _)
ReadLoop(s, bn, stop, out) ==
    IF bn >= stop THEN [s |-> s, out |-> out, exc |-> NoExc]
    ELSE IF s.handler = NoHandler
    THEN [s |-> s, out |-> out,
          exc |-> OtherException("AttributeError", <<"'NoneType' object has no attribute 'read'">>)]
    ELSE LET r == HandlerRead(s.handler, bn * s.block_size, (bn + 1) * s.block_size)
         IN  IF Raised(r.exc) THEN [s |-> s, out |-> out, exc |-> r.exc]
             ELSE IF ~DataEncodable(bn + 1)
             THEN [s |-> s, out |-> out,
                   exc |-> OtherException("struct.error",
                                          <<"'H' format requires 0 <= number <= 65535">>)]
             ELSE IF SendRaises(s) THEN SendRaised(s, out)
             ELSE LET short == r.data.len < s.block_size
                      s1 == [s EXCEPT !.last_block_num = bn + 1,
                                      !.final_block_sent = (@ \/ short)]
                      out1 == Append(out, DataPacket(bn + 1, r.data))
                  IN  IF short THEN [s |-> s1, out |-> out1, exc |-> NoExc]
                      ELSE ReadLoop(s1, bn + 1, stop, out1)

\* A faulty _send_read_data: the last ACK is ignored, the window starts at
\* block 1 again.
ResendFromStart(s) ==
    IF s.sock /\ s.mode = "read" THEN ReadLoop(s, 0, s.window_size, <<>>)
    ELSE [s |-> s, out |-> <<>>, exc |-> NoExc]

\* A faulty _send_read_data: the window starts one block too far.
SendSkipsBlock(s) ==
    IF s.sock /\ s.mode = "read"
    THEN LET last_block_acknowledged ==
                 IF s.last_packet_received # None THEN s.last_packet_received + 1 ELSE 0
         IN  ReadLoop(s, last_block_acknowledged,
                      last_block_acknowledged + s.window_size, <<>>)
    ELSE [s |-> s, out |-> <<>>, exc |-> NoExc]

\* _send_read_data
_send_read_data(s) ==
    IF s.sock /\ s.mode = "read"
    THEN LET last_block_acknowledged ==
                 IF s.last_packet_received # None THEN s.last_packet_received ELSE 0
         IN  ReadLoop(s, last_block_acknowledged,
                      last_block_acknowledged + s.window_size, <<>>)
    ELSE [s |-> s, out |-> <<>>, exc |-> NoExc]

\* _send_write_ack
_send_write_ack(s) ==
    IF s.sock /\ s.mode = "write"
    THEN LET block_to_acknowledge ==
                 IF s.last_packet_received # None THEN s.last_packet_received ELSE 0
         IN  IF SendRaises(s) THEN SendRaised(s, <<>>)
             ELSE [s |-> [s EXCEPT !.last_block_num = block_to_acknowledge],
                   out |-> <<AcknowledgementPacket(block_to_acknowledge)>>,
                   exc |-> NoExc]
    ELSE [s |-> s, out |-> <<>>, exc |-> NoExc]

\* Faulty except clauses: every exception is reported as NOT_DEFINED.
CaughtAsNotDefined(s, out, e, calls, written) ==
    LET r == _send_error(s, NOT_DEFINED, e.msg)
    IN  Result(r.s, out \o r.out, NoExc, calls, written)

\* The except clauses of setup() and step(): a HandlerException becomes an
\* ERROR with its code and message, anything else NOT_DEFINED with str(e).
\* What the send of that ERROR raises leaves the call.
Caught(s, out, e, calls, written) ==
    LET r == IF e.kind = "HandlerException" THEN _send_error(s, e.code, e.msg)
             ELSE _send_error(s, NOT_DEFINED, e.msg)
    IN  Result(r.s, out \o r.out, r.exc, calls, written)

\* A faulty option loop: every option is acknowledged as the client sent it.
EchoEveryOption(st, option) == [st EXCEPT !.usable = Append(@, option)]

\* A faulty option loop of a read request: the requested value is stored
\* before its range is tested.
ReadOptionStoresFirst(st, option) ==
    LET s == st.s
        name == Lower(option.name)
        v == PyInt(option.value)
        bad(s1, text) == LET r == _send_error(s1, ILLEGAL_OP, <<text>> \o PyStr(v.val))
                         IN  [st EXCEPT !.s = r.s, !.out = @ \o r.out, !.exc = r.exc]
        good(s1) == [st EXCEPT !.s = s1, !.usable = Append(@, option)]
        valueError == [st EXCEPT !.exc = OtherException("ValueError",
                                   <<"invalid literal for int() with base 10">>)]
    IN  CASE name = "blksize" ->
               IF ~v.ok THEN valueError
               ELSE IF MIN_BLKSIZE <= v.val /\ v.val <= MAX_BLKSIZE
               THEN good([s EXCEPT !.block_size = v.val])
               ELSE bad([s EXCEPT !.block_size = v.val], "Invalid requested block size: ")
          [] name = "timeout" ->
               IF ~v.ok THEN valueError
               ELSE IF MIN_TIMEOUT <= v.val /\ v.val <= MAX_TIMEOUT
               THEN good([s EXCEPT !.timeout = v.val])
               ELSE bad([s EXCEPT !.timeout = v.val], "Invalid timeout: ")
          [] name = "tsize" /\ HandlerLength(s.handler) # None ->
               [st EXCEPT !.usable =
                    Append(@, TFTPOption("tsize", PyStr(HandlerLength(s.handler))))]
          [] name = "windowsize" ->
               IF ~v.ok THEN valueError
               ELSE IF MIN_WINDOWSIZE <= v.val /\ v.val <= MAX_WINDOWSIZE
               THEN good([s EXCEPT !.window_size = v.val])
               ELSE bad([s EXCEPT !.window_size = v.val],
                        "Invalid requested window size: ")
          [] OTHER -> st

\* One option of a read request (the body of the for loop of setup()).
ReadOption(st, option) ==
    LET s == st.s
        name == Lower(option.name)
        v == PyInt(option.value)
        bad(text) == LET r == _send_error(s, ILLEGAL_OP, <<text>> \o PyStr(v.val))
                     IN  [st EXCEPT !.s = r.s, !.out = @ \o r.out, !.exc = r.exc]
        good(s1) == [st EXCEPT !.s = s1, !.usable = Append(@, option)]
        valueError == [st EXCEPT !.exc = OtherException("ValueError",
                                   <<"invalid literal for int() with base 10">>)]
    IN  CASE name = "blksize" ->
               IF ~v.ok THEN valueError
               ELSE IF MIN_BLKSIZE <= v.val /\ v.val <= MAX_BLKSIZE
               THEN good([s EXCEPT !.block_size = v.val])
               ELSE bad("Invalid requested block size: ")
          [] name = "timeout" ->
               IF ~v.ok THEN valueError
               ELSE IF MIN_TIMEOUT <= v.val /\ v.val <= MAX_TIMEOUT
               THEN good([s EXCEPT !.timeout = v.val])
               ELSE bad("Invalid timeout: ")
          [] name = "tsize" /\ HandlerLength(s.handler) # None ->
               [st EXCEPT !.usable =
                    Append(@, TFTPOption("tsize", PyStr(HandlerLength(s.handler))))]
          [] name = "windowsize" ->
               IF ~v.ok THEN valueError
               ELSE IF MIN_WINDOWSIZE <= v.val /\ v.val <= MAX_WINDOWSIZE
               THEN good([s EXCEPT !.window_size = v.val])
               ELSE bad("Invalid requested window size: ")
          [] OTHER -> st

\* One option of a write request.
WriteOption(st, option) ==
    LET s == st.s
        name == Lower(option.name)
        v == PyInt(option.value)
        bad(text) == LET r == _send_error(s, ILLEGAL_OP, <<text>> \o PyStr(v.val))
                     IN  [st EXCEPT !.s = r.s, !.out = @ \o r.out, !.exc = r.exc]
        good(s1) == [st EXCEPT !.s = s1, !.usable = Append(@, option)]
        valueError == [st EXCEPT !.exc = OtherException("ValueError",
                                   <<"invalid literal for int() with base 10">>)]
    IN  CASE name = "blksize" ->
               IF ~v.ok THEN valueError
               ELSE IF MIN_BLKSIZE <= v.val /\ v.val <= MAX_BLKSIZE
               THEN good([s EXCEPT !.block_size = v.val])
               ELSE bad("Invalid requested block size: ")
          [] name = "timeout" ->
               IF ~v.ok THEN valueError
               ELSE IF MIN_TIMEOUT <= v.val /\ v.val <= MAX_TIMEOUT
               THEN good([s EXCEPT !.timeout = v.val])
               ELSE bad("Invalid timeout: ")
          [] OTHER -> st

\* The for loop over the options, up to the first exception.
RECURSIVE Negotiate(_, _, _, _)
Negotiate(st, options, i, reading) ==
    IF i > Len(options) \/ Raised(st.exc) THEN st
    ELSE Negotiate(IF reading THEN ReadOption(st, options[i])
                   ELSE WriteOption(st, options[i]),
                   options, i + 1, reading)

NegotiateStart(s) == [s |-> s, usable |-> <<>>, out |-> <<>>, exc |-> NoExc]

\* setup(), the branch of a read request.
SetupRead(s0, request) ==
    LET s1 == [s0 EXCEPT !.mode = "read"]
        h == read_handler_factory(request.filename)
        s2 == [s1 EXCEPT !.handler = h]
    IN  IF Raised(h.factory_exc) THEN Caught(s1, <<>>, h.factory_exc, <<>>, <<>>)
        ELSE IF Raised(h.open_exc) THEN Caught(s2, <<>>, h.open_exc, <<"open">>, <<>>)
        ELSE IF Len(request.options) > 0
        THEN LET n == Negotiate(NegotiateStart(s2), request.options, 1, TRUE)
             IN  IF Raised(n.exc) THEN Caught(n.s, n.out, n.exc, <<"open">>, <<>>)
                 ELSE IF SendRaises(n.s)
                 THEN Caught(SendRaised(n.s, n.out).s, n.out, Head(n.s.send_errors),
                             <<"open">>, <<>>)
                 ELSE Result(n.s, Append(n.out, OptionsAcknowledgementPacket(n.usable)),
                             NoExc, <<"open">>, <<>>)
        ELSE LET r == _send_read_data(s2)
             IN  IF Raised(r.exc) THEN Caught(r.s, r.out, r.exc, <<"open">>, <<>>)
                 ELSE Result(r.s, r.out, NoExc, <<"open">>, <<>>)

\* setup(), the branch of a write request.
SetupWrite(s0, request, factory) ==
    LET s1 == [s0 EXCEPT !.mode = "write"]
        h == write_handler_factory(factory, request.filename)
        s2 == [s1 EXCEPT !.handler = h]
    IN  IF Raised(h.factory_exc) THEN Caught(s1, <<>>, h.factory_exc, <<>>, <<>>)
        ELSE IF Raised(h.open_exc) THEN Caught(s2, <<>>, h.open_exc, <<"open">>, <<>>)
        ELSE IF Len(request.options) > 0
        THEN LET n == Negotiate(NegotiateStart(s2), request.options, 1, FALSE)
             IN  IF Raised(n.exc) THEN Caught(n.s, n.out, n.exc, <<"open">>, <<>>)
                 ELSE IF SendRaises(n.s)
                 THEN Caught(SendRaised(n.s, n.out).s, n.out, Head(n.s.send_errors),
                             <<"open">>, <<>>)
                 ELSE Result(n.s, Append(n.out, OptionsAcknowledgementPacket(n.usable)),
                             NoExc, <<"open">>, <<>>)
        ELSE LET r == _send_write_ack(s2)
             IN  IF Raised(r.exc) THEN Caught(r.s, r.out, r.exc, <<"open">>, <<>>)
                 ELSE Result(r.s, r.out, NoExc, <<"open">>, <<>>)

\* setup() of the session s0 that __init__ built, once its socket is created,
\* bound and connected.  An exception of decode_tftp_datagram, or one that an
\* except clause of a branch raises (the send of its ERROR raising), closes
\* the socket and leaves setup().
SetupOn(s0, initial_request, factory) ==
    LET decoded == decode_tftp_datagram(initial_request)
        r == IF Raised(decoded.exc)
             THEN Result([s0 EXCEPT !.sock = FALSE], <<>>, decoded.exc, <<>>, <<>>)
             ELSE IF decoded.pkt.op = "RRQ" THEN SetupRead(s0, decoded.pkt)
             ELSE IF decoded.pkt.op = "WRQ" THEN SetupWrite(s0, decoded.pkt, factory)
             ELSE LET e == _send_error(s0, ILLEGAL_OP,
                                       <<"Session not started with RRQ or WRQ!">>)
                  IN  Result(e.s, e.out, e.exc, <<>>, <<>>)
    IN  IF SendRaises(s0) /\ Raised(r.exc) THEN [r EXCEPT !.s.sock = FALSE] ELSE r

\* setup(): the new session of a datagram that arrived on the listener, on a
\* socket whose sends succeed.
setup(initial_request, remote_addr, factory) ==
    SetupOn(NewSession(remote_addr), initial_request, factory)

\* step(), on a READ session, of a decoded packet.
StepRead(s, packet) ==
    IF packet.op = "ACK"
    THEN LET s1 == [s EXCEPT !.last_packet_received = packet.block]
         IN  IF s1.final_block_sent /\ packet.block = s1.last_block_num
             THEN Result([s1 EXCEPT !.done = TRUE], <<>>, NoExc, <<>>, <<>>)
             ELSE IF packet.block >= s1.last_packet_received
             THEN LET r == _send_read_data(s1)
                  IN  IF Raised(r.exc) THEN Caught(r.s, r.out, r.exc, <<>>, <<>>)
                      ELSE Result(r.s, r.out, NoExc, <<>>, <<>>)
             ELSE LET r == _send_error(s1, ILLEGAL_OP, <<"Received invalid ACK packet.">>)
                  IN  IF Raised(r.exc) THEN Caught(r.s, r.out, r.exc, <<>>, <<>>)
                      ELSE Result(r.s, r.out, NoExc, <<>>, <<>>)
    ELSE LET r == _send_error(s, ILLEGAL_OP, <<"Did not receive expected ACK packet.">>)
         IN  IF Raised(r.exc) THEN Caught(r.s, r.out, r.exc, <<>>, <<>>)
             ELSE Result(r.s, r.out, NoExc, <<>>, <<>>)

\* A faulty WRITE branch of step(): a packet that is no DATA is dropped.
StepWriteDropsOthers(s, packet) ==
    IF packet.op = "DATA" /\ s.last_block_num # None /\ packet.block = s.last_block_num + 1
       /\ ~Raised(s.handler.write_exc)
    THEN LET r == _send_write_ack(s)
         IN  Result(r.s, r.out, NoExc, <<>>, <<packet.data>>)
    ELSE Result(s, <<>>, NoExc, <<>>, <<>>)

\* step(), on a WRITE session, of a decoded packet.
StepWrite(s, packet) ==
    IF packet.op = "DATA"
    THEN IF s.last_block_num = None
         THEN Caught(s, <<>>,
                     OtherException("TypeError",
                         <<"unsupported operand type(s) for +: 'NoneType' and 'int'">>),
                     <<>>, <<>>)
         ELSE IF packet.block = s.last_block_num + 1
         THEN IF Raised(s.handler.write_exc)
              THEN Caught(s, <<>>, s.handler.write_exc, <<>>, <<>>)
              ELSE LET r == _send_write_ack(s)
                   IN  IF Raised(r.exc) THEN Caught(r.s, r.out, r.exc, <<>>, <<packet.data>>)
                       ELSE Result(r.s, r.out, NoExc, <<>>, <<packet.data>>)
         ELSE Result(s, <<>>, NoExc, <<>>, <<>>)
    ELSE LET r == _send_error(s, ILLEGAL_OP, <<"Did not receive expected DATA packet.">>)
         IN  IF Raised(r.exc) THEN Caught(r.s, r.out, r.exc, <<>>, <<>>)
             ELSE Result(r.s, r.out, NoExc, <<>>, <<>>)

\* step(): one datagram received on the session's socket.  What an except
\* clause raises (the send of its ERROR failing) leaves the call.
step(s, datagram) ==
    IF s.done THEN Result(s, <<>>, NoExc, <<>>, <<>>)
    ELSE LET s1 == [s EXCEPT !.idle = FALSE, !.retries = 0]
             decoded == decode_tftp_datagram(datagram)
         IN  IF Raised(decoded.exc) THEN Caught(s1, <<>>, decoded.exc, <<>>, <<>>)
             ELSE IF s1.mode = "read" THEN StepRead(s1, decoded.pkt)
             ELSE IF s1.mode = "write" THEN StepWrite(s1, decoded.pkt)
             ELSE Caught(s1, <<>>, OtherException("AssertionError", <<>>), <<>>, <<>>)

\* A timeout_handler that does not format its debug message: it resends even
\* when no packet has been received yet.
TimeoutResends(s) ==
    IF s.retries < s.max_retries
    THEN LET r == _send_read_data([s EXCEPT !.retries = @ + 1])
         IN  Result(r.s, r.out, r.exc, <<>>, <<>>)
    ELSE LET r == _send_error(s, NOT_DEFINED, <<"Session timed out.">>)
         IN  Result(r.s, r.out, NoExc, <<>>, <<>>)

\* A faulty timeout_handler: a retry takes the session up again.
TimeoutRevives(s) ==
    IF s.retries < s.max_retries
    THEN Result([s EXCEPT !.retries = @ + 1, !.done = FALSE], <<>>, NoExc, <<>>, <<>>)
    ELSE LET r == _send_error(s, NOT_DEFINED, <<"Session timed out.">>)
         IN  Result(r.s, r.out, NoExc, <<>>, <<>>)

\* The except clause of timeout_handler(): a ConnectionRefusedError marks the
\* session done; any other exception leaves the call.
TimeoutCaught(r) ==
    IF r.exc.kind = "ConnectionRefusedError"
    THEN Result([r.s EXCEPT !.done = TRUE], r.out, NoExc, <<>>, <<>>)
    ELSE Result(r.s, r.out, r.exc, <<>>, <<>>)

\* timeout_handler()
timeout_handler(s) ==
    IF s.retries < s.max_retries
    THEN IF s.last_packet_received = None
         THEN Result(s, <<>>,
                     OtherException("AttributeError",
                         <<"'NoneType' object has no attribute 'block_number'">>),
                     <<>>, <<>>)
         ELSE TimeoutCaught(_send_read_data([s EXCEPT !.retries = @ + 1]))
    ELSE TimeoutCaught(_send_error(s, NOT_DEFINED, <<"Session timed out.">>))

\* close(): the handler's close() calls.
CloseCalls(s) == IF s.handler # NoHandler THEN <<"close">> ELSE <<>>

\* ------------------------------------------------------------ environment

Clients == {"c1", "c2"}

\* The file descriptor of the listener, and those a session socket can get.
LISTENER_FD == 0
SessionFds == 1..Cardinality(Clients)

NoRequest == [absent |-> TRUE]

Chars(n) == PyStr(n)

\* A request datagram: the opcode and the NUL-terminated strings after it.
Request(opcode, filename, options) ==
    [opcode |-> opcode, params |-> <<filename, "octet">> \o options]

Opt(name, value) == <<name, value>>

AckDatagram(n) == [opcode |-> ACK_OPCODE, block |-> n]
DataDatagram(n, len) == [opcode |-> DATA_OPCODE, block |-> n, data |-> [chunk |-> n, len |-> len]]
ErrorDatagram == [opcode |-> ERROR_OPCODE, code |-> NOT_DEFINED, msg |-> <<"abort">>]
EmptyDatagram == [bytes |-> <<>>]
UnknownDatagram == [opcode |-> 9]

\* The requests of the transfer specification.
TransferRequests ==
    {Request(RRQ_OPCODE, f, <<>>) : f \in DOMAIN ReadFiles}
    \cup {Request(RRQ_OPCODE, f, Opt("blksize", <<"8">>)) : f \in {"/foobar", "/empty", "/sixteen"}}
    \cup {Request(RRQ_OPCODE, f, Opt("windowsize", <<"2">>)) : f \in {"/foobar", "/big", "/badread"}}
    \cup {Request(RRQ_OPCODE, f, Opt("blksize", <<"8">>) \o Opt("windowsize", <<"2">>)) :
              f \in {"/foobar", "/sixteen"}}
    \cup {Request(RRQ_OPCODE, "/foobar", Opt("blksize", Chars(1024)) \o Opt("tsize", <<"0">>)),
          Request(RRQ_OPCODE, "/foobar", Opt("blksize", <<"4">>)),
          Request(RRQ_OPCODE, "/foobar", Opt("foo", <<"1">>)),
          Request(RRQ_OPCODE, "/nowhere", <<>>)}
    \cup {Request(WRQ_OPCODE, f, <<>>) : f \in DOMAIN WriteFiles}
    \cup {Request(WRQ_OPCODE, "/upload", Opt("blksize", <<"8">>)),
          AckDatagram(0), EmptyDatagram, UnknownDatagram,
          [opcode |-> RRQ_OPCODE, params |-> <<"/foobar">>]}

\* The options of the negotiation specification.
Options ==
    {Opt("blksize", <<"8">>), Opt("BLKSIZE", <<"0", "8">>), Opt("blksize", Chars(1024)),
     Opt("blksize", <<"4">>), Opt("blksize", Chars(65465)), Opt("timeout", <<"x">>),
     Opt("timeout", <<"5">>), Opt("timeout", <<"0">>), Opt("timeout", Chars(256)),
     Opt("tsize", <<"0">>),
     Opt("windowsize", <<"2">>), Opt("windowsize", <<"0">>), Opt("windowsize", Chars(65536)),
     Opt("foo", <<"1">>)}

RECURSIVE OptionLists(_)
OptionLists(n) ==
    IF n = 0 THEN {<<>>}
    ELSE LET shorter == OptionLists(n - 1)
         IN  shorter \cup {l \o o : l \in shorter, o \in Options}

\* The requests of the negotiation specification.
SetupRequests ==
    {Request(op, f, l) : op \in {RRQ_OPCODE, WRQ_OPCODE}, f \in {"/foobar", "/nolen"},
                         l \in OptionLists(MaxOpts)}

\* What a client may send to the socket of its session.
ClientDatagrams ==
    {AckDatagram(n) : n \in 0..3}
    \cup {DataDatagram(1, 512), DataDatagram(1, 3), DataDatagram(2, 3)}
    \cup {ErrorDatagram, EmptyDatagram, UnknownDatagram}
    \cup {Request(RRQ_OPCODE, "/foobar", <<>>), [opcode |-> OACK_OPCODE, params |-> <<>>]}

\* ------------------------------------------------------------------ state

VARIABLES
    pc,              \* where serve_forever is: "poll", "accept", "step", "sweep", "exited"
    shutdown_event,  \* TFTPServer.shutdown_event
    escaped,         \* the exception that left serve_forever, NoExc if none
    r_list,          \* the fds reactor.poll returned
    todo,            \* the fds the current for loop has still to visit
    session_map,     \* TFTPServer.session_map: fd -> session
    reactor,         \* the fds registered with the reactor; whether it is open
    server_socket,   \* whether the listener socket is open
    write_factory,   \* TFTPServer.write_handler_factory
    faults,          \* per client, its odd datagrams and the idle periods of its session
    listener_q,      \* datagrams waiting on the listener socket
    sock_q,          \* per client, datagrams waiting on the socket of its session
    req,             \* per client, the request it sends
    requested,       \* the clients that have sent their request
    log,             \* per client, what happened on its session, in order
    codec            \* the codec function under call: its input and its results

vars == <<pc, shutdown_event, escaped, r_list, todo, session_map, reactor, server_socket,
          write_factory, listener_q, sock_q, req, requested, faults, log, codec>>

server_vars == <<pc, shutdown_event, escaped, r_list, todo, session_map, reactor,
                 server_socket, write_factory>>

\* No codec function is under call: the server specifications.
NoCodec == [stage |-> "none"]

\* --------------------------------------------------------------- the log

Sent(p) == [ev |-> "send", pkt |-> p]
Received(d) == [ev |-> "recv", pkt |-> d]
Call(name) == [ev |-> name]
Wrote(data) == [ev |-> "write", data |-> data]

SentAll(out) == [i \in 1..Len(out) |-> Sent(out[i])]
CallAll(calls) == [i \in 1..Len(calls) |-> Call(calls[i])]
WroteAll(written) == [i \in 1..Len(written) |-> Wrote(written[i])]

\* The events of a call's result: the handler's calls, then the writes, then
\* the packets sent.
Events(r) == CallAll(r.calls) \o WroteAll(r.written) \o SentAll(r.out)

\* close(): the handler is closed if there is one, then the socket.
CloseEvents(s) == CallAll(CloseCalls(s)) \o <<Call("sock_close")>>

\* ------------------------------------------------------------ event loop

EmptyMap == [fd \in {} |-> NoHandler]

MapWith(map, fd, s) == [f \in DOMAIN map \cup {fd} |-> IF f = fd THEN s ELSE map[f]]
MapWithout(map, fd) == [f \in DOMAIN map \ {fd} |-> map[f]]

RECURSIVE Sorted(_)
Sorted(S) ==
    IF S = {} THEN <<>>
    ELSE LET m == CHOOSE x \in S : \A y \in S : x <= y
         IN  <<m>> \o Sorted(S \ {m})

\* socket.socket(): the lowest free descriptor.
NewFd(map) == CHOOSE fd \in SessionFds \ DOMAIN map : \A g \in SessionFds \ DOMAIN map : fd <= g

FdOf(map, c) == CHOOSE fd \in DOMAIN map : map[fd].remote_addr = c
HasSession(map, c) == \E fd \in DOMAIN map : map[fd].remote_addr = c

\* A faulty loop that goes back to its poll when no session socket is ready,
\* without the sweep.
AcceptSkipsSweep(rl, map) ==
    IF rl \ {LISTENER_FD} # {} THEN [pc |-> "step", todo |-> Sorted(rl \ {LISTENER_FD})]
    ELSE [pc |-> "poll", todo |-> <<>>]

\* A faulty loop that leaves the for loop over r_list out when the listener
\* was readable: the sessions that were ready with it are not stepped.
AcceptSkipsSteps(rl, map) ==
    IF LISTENER_FD \notin rl /\ rl # {} THEN [pc |-> "step", todo |-> Sorted(rl)]
    ELSE IF DOMAIN map # {} THEN [pc |-> "sweep", todo |-> Sorted(DOMAIN map)]
    ELSE [pc |-> "poll", todo |-> <<>>]

\* Where the loop goes after the accept block: the for loop over r_list, else
\* the sweep over the session map, else the next poll.
AfterAccept(rl, map) ==
    IF rl \ {LISTENER_FD} # {} THEN [pc |-> "step", todo |-> Sorted(rl \ {LISTENER_FD})]
    ELSE IF DOMAIN map # {} THEN [pc |-> "sweep", todo |-> Sorted(DOMAIN map)]
    ELSE [pc |-> "poll", todo |-> <<>>]

\* A faulty loop that goes back to its poll after the steps, without the sweep.
AfterStepNoSweep(rest, map) ==
    IF rest # <<>> THEN [pc |-> "step", todo |-> rest] ELSE [pc |-> "poll", todo |-> <<>>]

AfterStep(rest, map) ==
    IF rest # <<>> THEN [pc |-> "step", todo |-> rest]
    ELSE IF DOMAIN map # {} THEN [pc |-> "sweep", todo |-> Sorted(DOMAIN map)]
    ELSE [pc |-> "poll", todo |-> <<>>]

AfterSweep(rest) ==
    IF rest # <<>> THEN [pc |-> "sweep", todo |-> rest] ELSE [pc |-> "poll", todo |-> <<>>]

\* A faulty finally clause: the sessions of the map are dropped, not closed.
FinallyDropsSessions(e, map, lg) ==
    /\ pc' = "exited"
    /\ escaped' = e
    /\ r_list' = {}
    /\ todo' = <<>>
    /\ session_map' = EmptyMap
    /\ reactor' = [fds |-> {}, open |-> FALSE]
    /\ server_socket' = FALSE
    /\ log' = lg
    /\ sock_q' = [c \in Clients |-> <<>>]
    /\ listener_q' = <<>>

\* The finally clause of serve_forever: every session of the map is closed,
\* then the listener and the reactor; the map is emptied.
Finally(e, map, lg) ==
    /\ pc' = "exited"
    /\ escaped' = e
    /\ r_list' = {}
    /\ todo' = <<>>
    /\ session_map' = EmptyMap
    /\ reactor' = [fds |-> {}, open |-> FALSE]
    /\ server_socket' = FALSE
    /\ log' = [c \in Clients |->
                 IF HasSession(map, c) THEN lg[c] \o CloseEvents(map[FdOf(map, c)])
                 ELSE lg[c]]
    /\ sock_q' = [c \in Clients |-> <<>>]
    /\ listener_q' = <<>>

\* The write factories a server is run with: a request that is no write
\* request never reaches the factory, and is served under disable_factory.
WriteFactories(r) ==
    IF "opcode" \in DOMAIN r /\ r.opcode = WRQ_OPCODE
    THEN {"disable_factory", "accept_factory"}
    ELSE {"disable_factory"}

InitWith(requests) ==
    /\ pc = "poll"
    /\ shutdown_event = FALSE
    /\ escaped = NoExc
    /\ r_list = {}
    /\ todo = <<>>
    /\ session_map = EmptyMap
    /\ reactor = [fds |-> {LISTENER_FD}, open |-> TRUE]
    /\ server_socket = TRUE
    /\ \E r \in requests :
          /\ req = [c \in Clients |-> IF c = "c1" THEN r ELSE NoRequest]
          /\ write_factory \in WriteFactories(r)
    /\ faults = [c \in Clients |-> [odd |-> 0, idle |-> 0]]
    /\ listener_q = <<>>
    /\ sock_q = [c \in Clients |-> <<>>]
    /\ requested = {}
    /\ log = [c \in Clients |-> <<>>]
    /\ codec = NoCodec

\* A client sends its request to the listener.
ClientRequest(c) ==
    /\ UNCHANGED codec
    /\ pc = "poll"
    /\ c \notin requested
    /\ req[c] # NoRequest
    /\ requested' = requested \cup {c}
    /\ listener_q' = Append(listener_q, [from |-> c, dgram |-> req[c]])
    /\ UNCHANGED <<server_vars, sock_q, req, faults, log>>

\* What the server received from a client and what it sent to it, in order.
Heard(c) == SelectSeq(log[c], LAMBDA e : e.ev = "recv")
SentIn(l) == SelectSeq(l, LAMBDA e : e.ev = "send")
Wire(c) == SentIn(log[c])

\* The answers of a client to the packet the server sent it last: the ACK of
\* a DATA block, ACK 0 of an OACK on a read, the next DATA block on a write.
Expected(c) ==
    LET w == Wire(c)
        last == w[Len(w)].pkt
        reading == req[c].opcode = RRQ_OPCODE
    IN  IF Len(w) = 0 \/ "opcode" \notin DOMAIN req[c] THEN {}
        ELSE CASE last.op = "DATA" -> {AckDatagram(last.block)}
               [] last.op = "OACK" /\ reading -> {AckDatagram(0)}
               [] last.op = "OACK" /\ ~reading -> {DataDatagram(1, 512), DataDatagram(1, 3)}
               [] last.op = "ACK" ->
                    {DataDatagram(last.block + 1, 512), DataDatagram(last.block + 1, 3)}
               [] OTHER -> {}

\* A client sends a datagram to the socket of its session, one at a time.
ClientSend(c, d) ==
    /\ UNCHANGED codec
    /\ pc = "poll"
    /\ HasSession(session_map, c)
    /\ sock_q[c] = <<>>
    /\ Len(Heard(c)) < MaxRecv
    /\ d \in Expected(c) \/ faults[c].odd < MaxOdd
    /\ sock_q' = [sock_q EXCEPT ![c] = <<d>>]
    /\ faults' = [faults EXCEPT ![c].odd = IF d \in Expected(c) THEN @ ELSE @ + 1]
    /\ UNCHANGED <<server_vars, listener_q, req, requested, log>>

\* More than its timeout goes by since a session was last seen.
TimePasses(fd) ==
    /\ UNCHANGED codec
    /\ pc = "poll"
    /\ fd \in DOMAIN session_map
    /\ ~session_map[fd].idle
    /\ faults[session_map[fd].remote_addr].idle < MaxIdle
    /\ session_map' = [session_map EXCEPT ![fd].idle = TRUE]
    /\ faults' = [faults EXCEPT ![session_map[fd].remote_addr].idle = @ + 1]
    /\ UNCHANGED <<pc, shutdown_event, escaped, r_list, todo, reactor, server_socket,
                   write_factory, listener_q, sock_q, req, requested, log>>

\* shutdown()
Shutdown ==
    /\ UNCHANGED codec
    /\ pc = "poll"
    /\ ~shutdown_event
    /\ shutdown_event' = TRUE
    /\ UNCHANGED <<pc, escaped, r_list, todo, session_map, reactor, server_socket,
                   write_factory, listener_q, sock_q, req, requested, faults, log>>

\* A faulty unregister that leaves the fd registered.
UnregisterLeavesFd(fds, fd) == fds

\* reactor.register and reactor.unregister on the set of registered fds.  The
\* loop unregisters only fds it has registered, so unregister never raises.
register(fds, fd) == fds \cup {fd}
unregister(fds, fd) == fds \ {fd}

\* reactor.poll: the registered fds that have a datagram waiting.
Ready ==
    {fd \in reactor.fds :
        IF fd = LISTENER_FD THEN listener_q # <<>>
        ELSE fd \in DOMAIN session_map /\ sock_q[session_map[fd].remote_addr] # <<>>}

Poll ==
    /\ UNCHANGED codec
    /\ pc = "poll"
    /\ ~shutdown_event
    /\ LET rl == Ready
           nxt == IF LISTENER_FD \in rl THEN [pc |-> "accept", todo |-> <<>>]
                  ELSE AfterAccept(rl, session_map)
       IN  /\ r_list' = (IF nxt.pc = "poll" THEN {} ELSE rl)
           /\ pc' = nxt.pc
           /\ todo' = nxt.todo
    /\ UNCHANGED <<shutdown_event, escaped, session_map, reactor, server_socket,
                   write_factory, listener_q, sock_q, req, requested, faults, log>>

\* The loop ends: server_socket.shutdown() of an unconnected socket raises
\* OSError where the platform says so; then the finally clause.
Exit ==
    /\ UNCHANGED codec
    /\ pc = "poll"
    /\ shutdown_event
    /\ \E e \in {NoExc, OtherException("OSError", <<"Transport endpoint is not connected">>)} :
          Finally(e, session_map, log)
    /\ UNCHANGED <<shutdown_event, write_factory, req, requested, faults>>

\* The errors the sends to the sender of a datagram of the listener will
\* raise: none unless the datagram says so.
SendErrorsOf(m) == IF "send_errors" \in DOMAIN m THEN m.send_errors ELSE <<>>

\* The listener is readable: one datagram, a new session, its setup().
Accept ==
    /\ UNCHANGED codec
    /\ pc = "accept"
    /\ \E m \in {Head(listener_q)} :
       \E r \in {SetupOn([NewSession(m.from) EXCEPT !.send_errors = SendErrorsOf(m)],
                          m.dgram, write_factory)} :
       LET lg == [log EXCEPT ![m.from] = @ \o Events(r)]
       IN  IF Raised(r.exc)
           THEN /\ Finally(r.exc, session_map,
                           [lg EXCEPT ![m.from] = @ \o <<Call("sock_close")>>])
                /\ UNCHANGED <<shutdown_event, write_factory, req, requested, faults>>
           ELSE LET fd == NewFd(session_map)
                    map == MapWith(session_map, fd, r.s)
                    nxt == AfterAccept(r_list, map)
                IN  /\ session_map' = map
                    /\ reactor' = [reactor EXCEPT !.fds = register(@, fd)]
                    /\ log' = lg
                    /\ listener_q' = Tail(listener_q)
                    /\ pc' = nxt.pc
                    /\ todo' = nxt.todo
                    /\ r_list' = (IF nxt.pc = "poll" THEN {} ELSE r_list)
                    /\ UNCHANGED <<shutdown_event, escaped, server_socket, write_factory,
                                   sock_q, req, requested, faults>>

\* One turn of the for loop over r_list: step() of the session of a ready fd.
\* An exception that leaves step() leaves the loop.
StepSession ==
    /\ UNCHANGED codec
    /\ pc = "step"
    /\ LET fd == Head(todo)
       IN  IF fd \in DOMAIN session_map /\ ~session_map[fd].done
           THEN \E r \in {step(session_map[fd],
                                Head(sock_q[session_map[fd].remote_addr]))} :
                LET s == session_map[fd]
                    c == s.remote_addr
                    d == Head(sock_q[c])
                    map == [session_map EXCEPT ![fd] = r.s]
                    lg == [log EXCEPT ![c] = @ \o <<Received(d)>> \o Events(r)]
                    nxt == AfterStep(Tail(todo), map)
                IN  IF Raised(r.exc)
                    THEN /\ Finally(r.exc, map, lg)
                         /\ UNCHANGED <<shutdown_event, write_factory, req, requested, faults>>
                    ELSE /\ session_map' = map
                         /\ sock_q' = [sock_q EXCEPT ![c] = Tail(@)]
                         /\ log' = lg
                         /\ pc' = nxt.pc
                         /\ todo' = nxt.todo
                         /\ UNCHANGED <<shutdown_event, escaped, r_list, reactor,
                                        server_socket, write_factory, listener_q, req,
                                        requested, faults>>
           ELSE LET nxt == AfterStep(Tail(todo), session_map)
                IN  /\ pc' = nxt.pc
                    /\ todo' = nxt.todo
                    /\ UNCHANGED <<session_map, sock_q, log, shutdown_event, escaped, r_list,
                                   reactor, server_socket, write_factory, listener_q, req,
                                   requested, faults>>

\* One turn of the sweep: timeout_handler() of a session that timed out, then
\* a completed session is unregistered, taken off the map and closed, in that
\* order.
SweepSession ==
    /\ UNCHANGED codec
    /\ pc = "sweep"
    /\ \E r \in {IF session_map[Head(todo)].idle
                 THEN timeout_handler(session_map[Head(todo)])
                 ELSE Result(session_map[Head(todo)], <<>>, NoExc, <<>>, <<>>)} :
       LET fd == Head(todo)
           s == session_map[fd]
           c == s.remote_addr
           lg == IF s.idle THEN [log EXCEPT ![c] = @ \o <<Call("timeout")>> \o Events(r)]
                 ELSE log
       IN  IF Raised(r.exc)
           THEN /\ Finally(r.exc, [session_map EXCEPT ![fd] = r.s], lg)
                /\ UNCHANGED <<shutdown_event, write_factory, req, requested, faults>>
           ELSE LET nxt == AfterSweep(Tail(todo))
                IN  /\ pc' = nxt.pc
                    /\ todo' = nxt.todo
                    /\ r_list' = (IF nxt.pc = "poll" THEN {} ELSE r_list)
                    /\ IF r.s.done
                       THEN /\ reactor' = [reactor EXCEPT !.fds = unregister(@, fd)]
                            /\ session_map' = MapWithout(session_map, fd)
                            /\ log' = [lg EXCEPT ![c] = @ \o <<Call("unregister")>>
                                                         \o CloseEvents(r.s)]
                            /\ sock_q' = [sock_q EXCEPT ![c] = <<>>]
                       ELSE /\ session_map' = [session_map EXCEPT ![fd] = r.s]
                            /\ log' = lg
                            /\ UNCHANGED <<reactor, sock_q>>
                    /\ UNCHANGED <<shutdown_event, escaped, server_socket, write_factory,
                                   listener_q, req, requested, faults>>

Next ==
    \/ \E c \in Clients : ClientRequest(c)
    \/ \E c \in Clients, d \in ClientDatagrams : ClientSend(c, d)
    \/ \E fd \in SessionFds : TimePasses(fd)
    \/ Shutdown
    \/ Poll
    \/ Exit
    \/ Accept
    \/ StepSession
    \/ SweepSession

Init == InitWith(TransferRequests)

Spec == Init /\ [][Next]_vars

\* The negotiation specification: requests with every list of options, and
\* clients that send nothing after their request.
NextSetup ==
    \/ \E c \in Clients : ClientRequest(c)
    \/ \E fd \in SessionFds : TimePasses(fd)
    \/ Shutdown
    \/ Poll
    \/ Exit
    \/ Accept
    \/ SweepSession

InitSetup == InitWith(SetupRequests)

SpecSetup == InitSetup /\ [][NextSetup]_vars

\* ------------------------------------------------------------ properties

\* A well-formed read or write request: a file name, a mode, pairs of options.
WellFormed(c) ==
    /\ "params" \in DOMAIN req[c]
    /\ Len(req[c].params) >= 2
    /\ Len(req[c].params) % 2 = 0
ReadRequest(c) == WellFormed(c) /\ req[c].opcode = RRQ_OPCODE
WriteRequest(c) == WellFormed(c) /\ req[c].opcode = WRQ_OPCODE
FileOf(c) == req[c].params[1]
OptionsOf(c) == build_from_strs(SubSeq(req[c].params, 3, Len(req[c].params)))

IsData(e) == e.ev = "send" /\ e.pkt.op = "DATA"
IsError(e) == e.ev = "send" /\ e.pkt.op = "ERROR"
IsOack(e) == e.ev = "send" /\ e.pkt.op = "OACK"
IsAckReceived(e) ==
    e.ev = "recv" /\ "opcode" \in DOMAIN e.pkt /\ e.pkt.opcode = ACK_OPCODE

DataIn(l) == SelectSeq(l, IsData)
ErrorsIn(l) == SelectSeq(l, IsError)
DataSent(c) == DataIn(log[c])
ErrorsSent(c) == ErrorsIn(log[c])
OacksSent(c) == SelectSeq(log[c], IsOack)
Last(s) == s[Len(s)]

\* The client acknowledges in order: the k-th datagram it sends is the ACK
\* of block k (of block k - 1 when the OACK comes first and is acknowledged as
\* block 0), sent once the server has sent that block.
AcksInOrder(c) ==
    LET first == IF Len(OptionsOf(c)) > 0 THEN 0 ELSE 1
    IN  \A j \in DOMAIN log[c] :
           log[c][j].ev = "recv" =>
              LET k == Len(SelectSeq(SubSeq(log[c], 1, j), LAMBDA e : e.ev = "recv"))
                  b == first + k - 1
              IN  /\ log[c][j].pkt = AckDatagram(b)
                  /\ b = 0 \/ \E i \in 1..(j - 1) : IsData(log[c][i]) /\ log[c][i].pkt.block = b

\* No timeout of the session was handled.
NoTimeout(c) == \A j \in DOMAIN log[c] : log[c][j].ev # "timeout"

\* The transfer ran to its end: the loop closed the session, no ERROR was sent.
Finished(c) ==
    /\ pc # "exited"
    /\ \E j \in DOMAIN log[c] : log[c][j].ev = "sock_close"
    /\ ErrorsSent(c) = <<>>

PromptReader(c) ==
    /\ ReadRequest(c)
    /\ FileOf(c) \in DOMAIN ReadFiles
    /\ AcksInOrder(c)
    /\ NoTimeout(c)

\* C1: a read request without options, served to a client that acknowledges
\* each block as it arrives: the DATA packets are numbered 1, 2, 3, ... without
\* gap or repeat, packet i carries the 512 bytes of the file from offset
\* 512 * (i - 1) unless it is the last, and when the transfer has ended the last
\* packet carries fewer than 512 bytes and ends at the end of the file, so the
\* payloads in order are the file.
C1_BlocksInOrder ==
    \A c \in Clients :
        (PromptReader(c) /\ OptionsOf(c) = <<>>) =>
            LET d == DataSent(c)
                N == ReadFiles[FileOf(c)].length
            IN  /\ \A i \in DOMAIN d :
                      /\ d[i].pkt.block = i
                      /\ d[i].pkt.data.start = 512 * (i - 1)
                      /\ i < Len(d) => d[i].pkt.data.len = 512
                /\ Finished(c) =>
                      /\ Len(d) > 0
                      /\ Last(d).pkt.data.len < 512
                      /\ Last(d).pkt.data.start + Last(d).pkt.data.len = N

\* A file of 1100 bytes has been transferred in three blocks.
C1_Witness ==
    /\ PromptReader("c1")
    /\ OptionsOf("c1") = <<>>
    /\ FileOf("c1") = "/big"
    /\ Finished("c1")
    /\ Len(DataSent("c1")) = 3

\* The step of a READ session whose final block has been sent, on the ACK of
\* the highest block sent.
FinalAck(fd) ==
    /\ pc = "step"
    /\ Head(todo) = fd
    /\ fd \in DOMAIN session_map
    /\ LET s == session_map[fd]
       IN  /\ s.mode = "read"
           /\ ~s.done
           /\ s.final_block_sent
           /\ sock_q[s.remote_addr] # <<>>
           /\ Head(sock_q[s.remote_addr]) = AckDatagram(s.last_block_num)

\* C2: on a READ session whose final block has been sent, the step on an ACK
\* of the highest block sent marks the session done and sends nothing; a session
\* that is done is unregistered, taken off the session map and closed by the
\* sweep, and none is left on the map when the iteration of the loop ends.
C2_FinalAckCloses ==
    [][\A fd \in SessionFds :
          /\ FinalAck(fd) =>
                LET c == session_map[fd].remote_addr
                IN  /\ fd \in DOMAIN session_map'
                    /\ session_map'[fd].done
                    /\ pc' = "sweep"
                    /\ log'[c] = Append(log[c], Received(Head(sock_q[c])))
          /\ (pc = "sweep" /\ Head(todo) = fd /\ session_map[fd].done) =>
                LET c == session_map[fd].remote_addr
                IN  /\ fd \notin DOMAIN session_map'
                    /\ fd \notin reactor'.fds
                    /\ Last(log'[c]) = Call("sock_close")
          /\ (pc' = "poll" /\ fd \in DOMAIN session_map') => ~session_map'[fd].done
      ]_vars

\* The loop is back at its poll after the final ACK of a transfer of three
\* blocks of 8 bytes: the session is off the map, closed, and no ERROR was sent.
C2_Witness ==
    /\ pc = "poll"
    /\ ReadRequest("c1")
    /\ FileOf("c1") = "/sixteen"
    /\ ~HasSession(session_map, "c1")
    /\ Len(DataSent("c1")) = 3
    /\ Last(Heard("c1")).pkt = AckDatagram(3)
    /\ ErrorsSent("c1") = <<>>
    /\ Last(log["c1"]) = Call("sock_close")

\* An option value that is a decimal integer of lo..hi.
InRange(value, lo, hi) ==
    LET v == PyInt(value) IN v.ok /\ lo <= v.val /\ v.val <= hi

\* The options of a request the server accepts: blksize, timeout and, on a
\* read, windowsize with a value in range; tsize on a read whose handler h
\* reports a length.
Accepted(o, reading, h) ==
    LET name == Lower(o.name)
    IN  \/ name = "blksize" /\ InRange(o.value, 8, 65464)
        \/ name = "timeout" /\ InRange(o.value, 1, 255)
        \/ reading /\ name = "windowsize" /\ InRange(o.value, 1, 65535)
        \/ reading /\ name = "tsize" /\ h.reports_length

\* The accepted options in the client's order, tsize with the file's length.
AcceptedOptions(c) ==
    LET reading == ReadRequest(c)
        h == read_handler_factory(FileOf(c))
        sel == SelectSeq(OptionsOf(c), LAMBDA o : Accepted(o, reading, h))
    IN  [i \in DOMAIN sel |->
            IF Lower(sel[i].name) = "tsize" THEN TFTPOption("tsize", PyStr(h.length))
            ELSE sel[i]]

\* C3: the OACK sent for a request with options holds exactly the accepted
\* options in the client's order: blksize, timeout and (read only) windowsize
\* as the client sent them when the value is in range, tsize (read only, when
\* the handler reports a length) with the length of the file in decimal, and
\* nothing else; at most one OACK is sent.
C3_OackHoldsAccepted ==
    \A c \in Clients :
        ((ReadRequest(c) \/ WriteRequest(c)) /\ Len(OptionsOf(c)) > 0) =>
            /\ Len(OacksSent(c)) <= 1
            /\ \A i \in DOMAIN OacksSent(c) :
                  OacksSent(c)[i].pkt.options = AcceptedOptions(c)

\* The OACK of a read of 9 bytes asked with BLKSIZE=08 and tsize=0.
C3_Witness ==
    /\ ReadRequest("c1")
    /\ FileOf("c1") = "/foobar"
    /\ OptionsOf("c1") = <<TFTPOption("BLKSIZE", <<"0", "8">>), TFTPOption("tsize", <<"0">>)>>
    /\ Wire("c1") = <<Sent(OptionsAcknowledgementPacket(
                          <<TFTPOption("BLKSIZE", <<"0", "8">>), TFTPOption("tsize", <<"9">>)>>))>>

\* C4: on a read request with at least one option, no DATA packet is sent
\* before an ACK has been received on the session, timeouts or not.
C4_NoDataBeforeAck ==
    \A c \in Clients :
        (ReadRequest(c) /\ Len(OptionsOf(c)) > 0) =>
            \A j \in DOMAIN log[c] :
                IsData(log[c][j]) => \E i \in 1..(j - 1) : IsAckReceived(log[c][i])

\* A session whose OACK was never acknowledged has timed out, and no DATA
\* packet was sent on it.
C4_Witness ==
    /\ ReadRequest("c1")
    /\ Len(OptionsOf("c1")) > 0
    /\ Len(OacksSent("c1")) = 1
    /\ Heard("c1") = <<>>
    /\ \E j \in DOMAIN log["c1"] : log["c1"][j].ev = "timeout"
    /\ DataSent("c1") = <<>>

\* An option the server parses as an integer.
Parsed(o, reading) ==
    Lower(o.name) \in {"blksize", "timeout"} \cup (IF reading THEN {"windowsize"} ELSE {})

\* An option whose integer value is outside the range of its name.
OutOfRange(o, reading) ==
    LET name == Lower(o.name)
    IN  /\ PyInt(o.value).ok
        /\ \/ name = "blksize" /\ ~InRange(o.value, 8, 65464)
           \/ name = "timeout" /\ ~InRange(o.value, 1, 255)
           \/ reading /\ name = "windowsize" /\ ~InRange(o.value, 1, 65535)

IllegalOpSent(c) ==
    \E i \in DOMAIN ErrorsSent(c) : ErrorsSent(c)[i].pkt.code = 4

\* The session of a client is marked done while it is on the session map, and
\* is off the map when the loop is back at its poll.
MarkedDone(c) ==
    /\ HasSession(session_map, c) => session_map[FdOf(session_map, c)].done
    /\ pc = "poll" => ~HasSession(session_map, c)

C6_WriteDisabled ==
    \A c \in Clients :
        (WriteRequest(c) /\ write_factory = "disable_factory" /\ log[c] # <<>>) =>
            /\ Wire(c) = <<Sent(ErrorPacket(4, <<"Transfer not allowed">>))>>
            /\ \A j \in DOMAIN log[c] : log[c][j].ev \notin {"open", "write", "close"}
            /\ MarkedDone(c)

\* The refused write request has been answered and its session swept.
C6_Witness ==
    /\ WriteRequest("c1")
    /\ write_factory = "disable_factory"
    /\ pc = "poll"
    /\ Len(Wire("c1")) = 1
    /\ Last(log["c1"]) = Call("sock_close")

\* The ERROR the except clauses are to send for an exception.
ErrorFor(e) ==
    IF e.kind = "HandlerException" THEN ErrorPacket(e.code, e.msg)
    ELSE ErrorPacket(0, e.msg)

\* The exception handler.read() raises while the window of n blocks of bs
\* bytes from block index b is read: that of the first read that raises, the
\* blocks before it being full.  NoExc when none does.
WindowRaises(h, b, bs, n) ==
    LET read(k) == HandlerRead(h, (b + k) * bs, (b + k + 1) * bs)
        K == {k \in 0..(n - 1) :
                 /\ Raised(read(k).exc)
                 /\ \A j \in 0..(k - 1) : ~Raised(read(j).exc) /\ read(j).data.len = bs}
    IN  IF K = {} THEN NoExc ELSE read(CHOOSE k \in K : TRUE).exc

\* The exception the factory, open() or read() raises in setup() of request p.
SetupRaises(p) ==
    IF p.op = "RRQ"
    THEN LET h == read_handler_factory(p.filename)
         IN  IF Raised(h.factory_exc) THEN h.factory_exc
             ELSE IF Raised(h.open_exc) THEN h.open_exc
             ELSE IF Len(p.options) = 0 THEN WindowRaises(h, 0, 512, 1)
             ELSE NoExc
    ELSE LET h == write_handler_factory(write_factory, p.filename)
         IN  IF Raised(h.factory_exc) THEN h.factory_exc ELSE h.open_exc

\* The exception read() or write() raises in step() of session s on datagram d.
StepRaises(s, d) ==
    IF "opcode" \notin DOMAIN d THEN NoExc
    ELSE IF /\ s.mode = "read"
            /\ d.opcode = ACK_OPCODE
            /\ ~(s.final_block_sent /\ d.block = s.last_block_num)
    THEN WindowRaises(s.handler, d.block, s.block_size, s.window_size)
    ELSE IF /\ s.mode = "write"
            /\ d.opcode = DATA_OPCODE
            /\ s.last_block_num # None
            /\ d.block = s.last_block_num + 1
    THEN s.handler.write_exc
    ELSE NoExc

\* C7: when the handler factory, open(), read() or write() raises in setup()
\* or in step(), the call ends with the session marked done and with one
\* ERROR as the last packet sent: the code and message of a HandlerException,
\* code 0 and str(e) for any other exception.
C7_HandlerErrorsReported ==
    [][/\ pc = "accept" =>
             LET m == Head(listener_q)
                 dec == decode_tftp_datagram(m.dgram)
             IN  (/\ ~Raised(dec.exc)
                  /\ dec.pkt.op \in {"RRQ", "WRQ"}
                  /\ Raised(SetupRaises(dec.pkt))) =>
                     /\ HasSession(session_map', m.from)
                     /\ session_map'[FdOf(session_map', m.from)].done
                     /\ Last(log'[m.from]) = Sent(ErrorFor(SetupRaises(dec.pkt)))
                     /\ Len(ErrorsIn(log'[m.from])) = 1
       /\ (pc = "step" /\ Head(todo) \in DOMAIN session_map) =>
             LET fd == Head(todo)
                 s == session_map[fd]
                 c == s.remote_addr
             IN  (~s.done /\ Raised(StepRaises(s, Head(sock_q[c])))) =>
                     /\ session_map'[fd].done
                     /\ Last(log'[c]) = Sent(ErrorFor(StepRaises(s, Head(sock_q[c]))))
                     /\ Len(ErrorsIn(log'[c])) = 1
      ]_vars

\* read() failed on the second block of a window of two: the first block
\* was sent, then the ERROR of the HandlerException.
C7_Witness ==
    /\ ReadRequest("c1")
    /\ FileOf("c1") = "/badread"
    /\ Len(OptionsOf("c1")) > 0
    /\ Len(DataSent("c1")) = 1
    /\ ErrorsSent("c1") = <<Sent(ErrorPacket(2, <<"Read failed">>))>>

\* C8 as the specification states it: on a read whose client sends nothing,
\* each of the first three timeouts is followed by the outstanding DATA sent
\* again, the fourth by ERROR(0, "Session timed out."), the session marked
\* done and closed.
C8_AsStated ==
    \A c \in Clients :
        (ReadRequest(c) /\ OptionsOf(c) = <<>> /\ DataSent(c) # <<>> /\ Heard(c) = <<>>) =>
            \A j \in DOMAIN log[c] :
                log[c][j].ev = "timeout" =>
                    LET k == Len(SelectSeq(SubSeq(log[c], 1, j), LAMBDA e : e.ev = "timeout"))
                    IN  /\ j < Len(log[c])
                        /\ IF k <= 3 THEN log[c][j + 1] = DataSent(c)[1]
                           ELSE /\ log[c][j + 1] = Sent(ErrorPacket(0, <<"Session timed out.">>))
                                /\ MarkedDone(c)
                                /\ Last(log[c]) = Call("sock_close")

\* The first timeout of a read whose client sent nothing: the AttributeError
\* of timeout_handler has left serve_forever.
C8_Crash ==
    /\ ReadRequest("c1")
    /\ OptionsOf("c1") = <<>>
    /\ Heard("c1") = <<>>
    /\ Len(DataSent("c1")) = 1
    /\ pc = "exited"
    /\ escaped.kind = "AttributeError"

\* The block size and the window size of the OACK sent to a client.
OackOptions(c) == OacksSent(c)[1].pkt.options
BlksizeAccepted(c) ==
    /\ OacksSent(c) # <<>>
    /\ \E i \in DOMAIN OackOptions(c) : Lower(OackOptions(c)[i].name) = "blksize"
BlksizeOf(c) ==
    LET o == SelectSeq(OackOptions(c), LAMBDA x : Lower(x.name) = "blksize")
    IN  PyInt(Last(o).value).val
WindowIsOne(c) ==
    \A i \in DOMAIN OackOptions(c) :
        Lower(OackOptions(c)[i].name) = "windowsize" => PyInt(OackOptions(c)[i].value).val = 1

WindowAccepted(c) ==
    /\ OacksSent(c) # <<>>
    /\ \E i \in DOMAIN OackOptions(c) : Lower(OackOptions(c)[i].name) = "windowsize"

\* last_ack_block: the block number of the last ACK recorded, 0 if none.
LastAckBlock(s) == IF s.last_packet_received # None THEN s.last_packet_received ELSE 0

\* highest_sent_block: the number of the last DATA block put on the wire, 0
\* if none.
HighestSentBlock(s) == IF s.last_block_num # None THEN s.last_block_num ELSE 0

\* The number of the short block that ends the file of a READ session.
FinalBlock(s) == (s.handler.length \div s.block_size) + 1

\* The DATA packets of the window that follows ACK n: blocks n + 1 .. n + W of
\* the file, up to its short block.
WindowAfter(s, n) ==
    LET top == IF n + s.window_size < FinalBlock(s) THEN n + s.window_size ELSE FinalBlock(s)
        bytes(b) ==
            LET from == (b - 1) * s.block_size
                left == s.handler.length - from
            IN  [start |-> from,
                 len |-> IF left >= s.block_size THEN s.block_size
                         ELSE IF left > 0 THEN left ELSE 0]
    IN  [i \in 1..(IF top > n THEN top - n ELSE 0) |-> DataPacket(n + i, bytes(n + i))]

\* The step of a READ session on an ACK datagram.
AckStep(fd) ==
    /\ pc = "step"
    /\ Head(todo) = fd
    /\ fd \in DOMAIN session_map
    /\ LET s == session_map[fd]
       IN  /\ s.mode = "read"
           /\ ~s.done
           /\ sock_q[s.remote_addr] # <<>>
           /\ "opcode" \in DOMAIN Head(sock_q[s.remote_addr])
           /\ Head(sock_q[s.remote_addr]).opcode = ACK_OPCODE

\* The ACK of an AckStep lies within the outstanding window: it is the ACK of
\* the OACK, or its number n has last_ack_block < n <= highest_sent_block.
InWindow(s, n) ==
    \/ s.last_block_num = None /\ s.last_packet_received = None /\ n = 0
    \/ LastAckBlock(s) < n /\ n <= HighestSentBlock(s)

\* C11 as the specification states it: on a read with an accepted windowsize
\* W, the step on the ACK of the OACK or on an ACK n within the outstanding
\* window records n as the last ACK and sends the DATA packets n + 1 .. n + W,
\* fewer only when the short block at the end of the file is reached (the
\* handler's read() not failing).
C11_AsStated ==
    [][\A fd \in SessionFds :
          AckStep(fd) =>
             LET s == session_map[fd]
                 c == s.remote_addr
                 d == Head(sock_q[c])
             IN  (/\ WindowAccepted(c)
                  /\ InWindow(s, d.block)
                  /\ ~Raised(WindowRaises(s.handler, d.block, s.block_size, s.window_size))) =>
                     /\ session_map'[fd].last_packet_received = d.block
                     /\ log'[c] = log[c] \o <<Received(d)>> \o SentAll(WindowAfter(s, d.block))
      ]_vars

\* A read of 1100 bytes in blocks of 512 with windowsize=2 was closed on
\* ACK 2, without an ERROR, block 3 never acknowledged: after a stale ACK 0 the
\* blocks 1 and 2 were sent again, and the ACK of block 2 was taken for the
\* final one.
C11_EndsEarly ==
    /\ pc = "poll"
    /\ ReadRequest("c1")
    /\ FileOf("c1") = "/big"
    /\ WindowAccepted("c1")
    /\ ErrorsSent("c1") = <<>>
    /\ Len(Heard("c1")) > 0
    /\ Last(Heard("c1")).pkt = AckDatagram(2)
    /\ Last(log["c1"]) = Call("sock_close")

\* last_data_block of a WRITE session: the number of the last DATA block
\* accepted, 0 when none was, so that the first block expected is 1.
LastDataBlock(s) == IF s.last_block_num # None THEN s.last_block_num ELSE 0

\* The step of a WRITE session on the DATA block it expects next, the
\* handler's write() not failing.
ExpectedData(fd) ==
    /\ pc = "step"
    /\ Head(todo) = fd
    /\ fd \in DOMAIN session_map
    /\ LET s == session_map[fd]
       IN  /\ s.mode = "write"
           /\ ~s.done
           /\ sock_q[s.remote_addr] # <<>>
           /\ "opcode" \in DOMAIN Head(sock_q[s.remote_addr])
           /\ Head(sock_q[s.remote_addr]).opcode = DATA_OPCODE
           /\ Head(sock_q[s.remote_addr]).block = LastDataBlock(s) + 1
           /\ ~Raised(s.handler.write_exc)

\* C12 as the specification states it: in a WRITE session, with or without
\* options, the first block expected is 1; the step on DATA N with
\* N = last_data_block + 1 hands the payload to handler.write once, sends
\* ACK(N) and records N as the last data block.
C12_AsStated ==
    [][\A fd \in SessionFds :
          ExpectedData(fd) =>
             LET s == session_map[fd]
                 c == s.remote_addr
                 d == Head(sock_q[c])
             IN  /\ log'[c] = log[c] \o <<Received(d), Wrote(d.data),
                                           Sent(AcknowledgementPacket(d.block))>>
                 /\ session_map'[fd].last_block_num = d.block
      ]_vars

\* DATA 1 of a write without options was written and answered with ACK 0.
C12_AckZero ==
    /\ WriteRequest("c1")
    /\ OptionsOf("c1") = <<>>
    /\ Len(log["c1"]) >= 3
    /\ Last(log["c1"]) = Sent(AcknowledgementPacket(0))
    /\ log["c1"][Len(log["c1"]) - 1].ev = "write"
    /\ log["c1"][Len(log["c1"]) - 2] = Received(DataDatagram(1, 512))

\* ------------------------------------------- a session called directly

\* close(): the handler and the socket are closed and forgotten.
close(s) == [s EXCEPT !.handler = NoHandler, !.sock = FALSE]

\* The session specification: serve_forever is not running; one session is
\* built from a request and its setup(), step(), timeout_handler() and close()
\* are called in any order.  escaped holds the exception of the last call;
\* the log is not kept.
InitSession ==
    /\ pc = "calls"
    /\ shutdown_event = FALSE
    /\ escaped = NoExc
    /\ r_list = {}
    /\ todo = <<>>
    /\ session_map = EmptyMap
    /\ reactor = [fds |-> {}, open |-> FALSE]
    /\ server_socket = FALSE
    /\ \E r \in TransferRequests :
          /\ req = [c \in Clients |-> IF c = "c1" THEN r ELSE NoRequest]
          /\ write_factory \in WriteFactories(r)
    /\ faults = [c \in Clients |-> [odd |-> 0, idle |-> 0]]
    /\ listener_q = <<>>
    /\ sock_q = [c \in Clients |-> <<>>]
    /\ requested = {}
    /\ log = [c \in Clients |-> <<>>]
    /\ codec = NoCodec

\* TFTPServerSession(...) and its setup()
CallSetup(c) ==
    /\ UNCHANGED codec
    /\ pc = "calls"
    /\ c \notin requested
    /\ req[c] # NoRequest
    /\ \E r \in {setup(req[c], c, write_factory)} :
           /\ session_map' = MapWith(session_map, NewFd(session_map), r.s)
           /\ escaped' = r.exc
    /\ requested' = requested \cup {c}
    /\ UNCHANGED <<pc, shutdown_event, r_list, todo, reactor, server_socket, write_factory,
                   listener_q, sock_q, req, faults, log>>

\* step() with datagram d waiting on the socket; on a session that was
\* closed and is not done, recvfrom of no socket raises AttributeError.
CallStep(fd, d) ==
    /\ UNCHANGED codec
    /\ pc = "calls"
    /\ fd \in DOMAIN session_map
    /\ \E s \in {session_map[fd]} :
       \E r \in {IF ~s.done /\ ~s.sock
                 THEN Result(s, <<>>,
                             OtherException("AttributeError",
                                 <<"'NoneType' object has no attribute 'recvfrom'">>),
                             <<>>, <<>>)
                 ELSE step(s, d)} :
           /\ session_map' = [session_map EXCEPT ![fd] = r.s]
           /\ escaped' = r.exc
    /\ UNCHANGED <<pc, shutdown_event, r_list, todo, reactor, server_socket, write_factory,
                   listener_q, sock_q, req, requested, faults, log>>

\* timeout_handler()
CallTimeout(fd) ==
    /\ UNCHANGED codec
    /\ pc = "calls"
    /\ fd \in DOMAIN session_map
    /\ \E r \in {timeout_handler(session_map[fd])} :
           /\ session_map' = [session_map EXCEPT ![fd] = r.s]
           /\ escaped' = r.exc
    /\ UNCHANGED <<pc, shutdown_event, r_list, todo, reactor, server_socket, write_factory,
                   listener_q, sock_q, req, requested, faults, log>>

\* close()
CallClose(fd) ==
    /\ UNCHANGED codec
    /\ pc = "calls"
    /\ fd \in DOMAIN session_map
    /\ session_map' = [session_map EXCEPT ![fd] = close(@)]
    /\ escaped' = NoExc
    /\ UNCHANGED <<pc, shutdown_event, r_list, todo, reactor, server_socket, write_factory,
                   listener_q, sock_q, req, requested, faults, log>>

NextSession ==
    \/ \E c \in Clients : CallSetup(c)
    \/ \E fd \in SessionFds, d \in ClientDatagrams : CallStep(fd, d)
    \/ \E fd \in SessionFds : CallTimeout(fd)
    \/ \E fd \in SessionFds : CallClose(fd)

SpecSession == InitSession /\ [][NextSession]_vars

\* C13: once the done flag of a session is true, no call of step(),
\* timeout_handler() or close() on it, in any order and with any datagram,
\* makes it false again.
C13_DoneMonotonic ==
    [][\A fd \in SessionFds :
          (fd \in DOMAIN session_map /\ session_map[fd].done) =>
              (fd \in DOMAIN session_map' /\ session_map'[fd].done)
      ]_vars

\* A READ session that was done, then timed out twice and was closed: it is
\* still done.  (step() sets retries to 0, and timeout_handler marks a session
\* done only at retries 3.)
C13_Witness ==
    /\ pc = "calls"
    /\ 1 \in DOMAIN session_map
    /\ session_map[1].mode = "read"
    /\ session_map[1].done
    /\ session_map[1].retries = 2
    /\ ~session_map[1].sock

\* C14 as the specification states it: for every READ session, in every
\* state after its setup and whatever ACKs the client sent,
\* last_ack_block <= highest_sent_block <= last_ack_block + window_size.
C14_AsStated ==
    \A fd \in DOMAIN session_map :
        LET s == session_map[fd]
        IN  s.mode = "read" =>
               /\ LastAckBlock(s) <= HighestSentBlock(s)
               /\ HighestSentBlock(s) <= LastAckBlock(s) + s.window_size

\* A READ session that recorded ACK 2 while DATA 1 is the highest block sent:
\* read() failed on the window after the ACK, and the session is done.
C14_AckAhead ==
    /\ pc = "sweep"
    /\ 1 \in DOMAIN session_map
    /\ session_map[1].mode = "read"
    /\ session_map[1].done
    /\ session_map[1].last_packet_received = 2
    /\ session_map[1].last_block_num = 1
    /\ Len(ErrorsSent("c1")) = 1

\* Whether the sweep finds the session completed: after timeout_handler() if
\* the session timed out.
CompletedInSweep(s) == IF s.idle THEN timeout_handler(s).s.done ELSE s.done

\* C15: when an iteration of the loop ends (the loop is back at its poll) no
\* session of the session map is done.  A new session is registered with the
\* reactor and put on the map even when its setup() left it done; a session
\* the sweep finds completed is unregistered, taken off the map and closed, its
\* handler (if it has one) and then its socket; a done session stays on the
\* map only until the sweep of the same iteration.
C15_DoneSessionsSwept ==
    [][/\ pc' = "poll" => \A fd \in DOMAIN session_map' : ~session_map'[fd].done
       /\ \A fd \in SessionFds :
             /\ (fd \notin DOMAIN session_map /\ fd \in DOMAIN session_map') =>
                    (pc = "accept" /\ fd \in reactor'.fds)
             /\ (/\ pc = "sweep"
                 /\ Head(todo) = fd
                 /\ pc' # "exited"
                 /\ CompletedInSweep(session_map[fd])) =>
                    LET c == session_map[fd].remote_addr
                        n == Len(log'[c])
                    IN  /\ fd \notin DOMAIN session_map'
                        /\ fd \notin reactor'.fds
                        /\ log'[c][n] = Call("sock_close")
                        /\ session_map[fd].handler # NoHandler => log'[c][n - 1] = Call("close")
             /\ (/\ fd \in DOMAIN session_map
                 /\ session_map[fd].done
                 /\ fd \in DOMAIN session_map') =>
                    (pc' \in {"step", "sweep"} /\ fd \in reactor'.fds)
      ]_vars

\* The request for a file that open() does not find left its session done in
\* setup(); the same iteration registered it, swept it and closed it.
C15_Witness ==
    /\ pc = "poll"
    /\ session_map = EmptyMap
    /\ reactor.fds = {LISTENER_FD}
    /\ log["c1"] = <<Call("open"), Sent(ErrorPacket(FILE_NOT_FOUND, <<"File not found">>)),
                     Call("unregister"), Call("close"), Call("sock_close")>>

\* C16: when serve_forever exits, on shutdown or on an exception that left
\* the loop, every session that was on the session map has been closed (its
\* handler if it has one, then its socket), the listener socket and the reactor
\* are closed and the session map is empty; no handler that was opened and no
\* session socket is left open.
C16_ExitClosesAll ==
    [][(pc # "exited" /\ pc' = "exited") =>
          /\ session_map' = EmptyMap
          /\ ~server_socket'
          /\ ~reactor'.open
          /\ reactor'.fds = {}
          /\ \A fd \in DOMAIN session_map :
                LET s == session_map[fd]
                    c == s.remote_addr
                    n == Len(log'[c])
                IN  /\ log'[c][n] = Call("sock_close")
                    /\ s.handler # NoHandler => log'[c][n - 1] = Call("close")
          /\ \A c \in Clients :
                LET after(name) == Len(SelectSeq(log'[c], LAMBDA e : e.ev = name))
                IN  /\ after("open") = after("close")
                    /\ log'[c] # <<>> => after("sock_close") = 1
      ]_vars

\* shutdown() was called while the read of 1100 bytes was waiting for the
\* ACK of its first block: serve_forever has exited, the handler and the socket
\* of the session are closed.
C16_Witness ==
    /\ pc = "exited"
    /\ shutdown_event
    /\ ReadRequest("c1")
    /\ FileOf("c1") = "/big"
    /\ OptionsOf("c1") = <<>>
    /\ log["c1"] = <<Call("open"), Sent(DataPacket(1, [start |-> 0, len |-> 512])),
                     Call("close"), Call("sock_close")>>
    /\ session_map = EmptyMap
    /\ ~server_socket
    /\ ~reactor.open

\* ------------------------------------------------------------ wire codec

\* A datagram on the wire is a sequence of bytes (0..255); a string is the
\* sequence of its code points.

\* struct.pack("!H", n) and struct.unpack("!H", b): 16 bits, big-endian.  pack
\* is called with the numbers unpack returned, or under DataEncodable.
pack_H(n) == <<n \div 256, n % 256>>
unpack_H(b) == b[1] * 256 + b[2]

StructError == OtherException("struct.error", <<"unpack requires a buffer">>)
UnterminatedString ==
    OtherException("UnterminatedString", <<"is not a valid null terminated string!">>)

\* bytes.decode("ascii") raises UnicodeDecodeError, a ValueError, on a byte
\* of 128 or more.
IsAscii(b) == \A i \in DOMAIN b : b[i] < 128

\* bytes(s, "utf-8")
RECURSIVE utf8(_)
utf8(s) ==
    IF s = <<>> THEN <<>>
    ELSE (IF Head(s) < 128 THEN <<Head(s)>>
          ELSE <<192 + (Head(s) \div 64), 128 + (Head(s) % 64)>>) \o utf8(Tail(s))

\* unpack_c_str: the string before the first NUL and the index of that NUL;
\* the ValueError of index() and that of decode() become UnterminatedString.
unpack_c_str(s) ==
    IF \A i \in DOMAIN s : s[i] # 0
    THEN [exc |-> UnterminatedString, str |-> <<>>, ind |-> 0]
    ELSE LET n == CHOOSE i \in DOMAIN s : s[i] = 0 /\ \A j \in 1..(i - 1) : s[j] # 0
             head == SubSeq(s, 1, n - 1)
         IN  IF IsAscii(head) THEN [exc |-> NoExc, str |-> head, ind |-> n - 1]
             ELSE [exc |-> UnterminatedString, str |-> <<>>, ind |-> 0]

\* unpack_c_strs
RECURSIVE unpack_c_strs(_)
unpack_c_strs(s) ==
    IF s = <<>> THEN [exc |-> NoExc, strs |-> <<>>]
    ELSE LET u == unpack_c_str(s)
         IN  IF Raised(u.exc) THEN [exc |-> u.exc, strs |-> <<>>]
             ELSE LET rest == unpack_c_strs(SubSeq(s, u.ind + 2, Len(s)))
                  IN  IF Raised(rest.exc) THEN rest
                      ELSE [exc |-> NoExc, strs |-> <<u.str>> \o rest.strs]

\* A faulty pack_c_str: the NUL is left out.
PackUnterminated(s) == utf8(s)

\* pack_c_str
pack_c_str(s) == utf8(s) \o <<0>>

\* pack_c_strs
RECURSIVE pack_c_strs(_)
pack_c_strs(strs) ==
    IF strs = <<>> THEN <<>> ELSE pack_c_str(Head(strs)) \o pack_c_strs(Tail(strs))

NoPacket == [op |-> "none"]

\* ReadRequestPacket.decode / WriteRequestPacket.decode on the bytes.
RequestDecodeRaw(op, raw) ==
    LET u == unpack_c_strs(SubSeq(raw, 3, Len(raw)))
    IN  IF Raised(u.exc) THEN [exc |-> u.exc, pkt |-> NoPacket]
        ELSE RequestDecode(op, [params |-> u.strs])

\* DataPacket.decode
DataDecodeRaw(raw) ==
    IF Len(raw) < 4 THEN [exc |-> StructError, pkt |-> NoPacket]
    ELSE [exc |-> NoExc,
          pkt |-> DataPacket(unpack_H(SubSeq(raw, 3, 4)), SubSeq(raw, 5, Len(raw)))]

\* AcknowledgementPacket.decode: the bytes after the block number are not
\* looked at.
AckDecodeRaw(raw) ==
    IF Len(raw) < 4 THEN [exc |-> StructError, pkt |-> NoPacket]
    ELSE [exc |-> NoExc, pkt |-> AcknowledgementPacket(unpack_H(SubSeq(raw, 3, 4)))]

\* ErrorPacket.decode: the message ends at the first NUL.
ErrorDecodeRaw(raw) ==
    IF Len(raw) < 4 THEN [exc |-> StructError, pkt |-> NoPacket]
    ELSE LET u == unpack_c_str(SubSeq(raw, 5, Len(raw)))
         IN  IF Raised(u.exc) THEN [exc |-> u.exc, pkt |-> NoPacket]
             ELSE [exc |-> NoExc, pkt |-> ErrorPacket(unpack_H(SubSeq(raw, 3, 4)), u.str)]

\* OptionsAcknowledgementPacket.decode
OackDecodeRaw(raw) ==
    LET u == unpack_c_strs(SubSeq(raw, 3, Len(raw)))
    IN  IF Raised(u.exc) THEN [exc |-> u.exc, pkt |-> NoPacket]
        ELSE IF Len(u.strs) % 2 # 0
        THEN [exc |-> OtherException("TFTPInvalidProtocolException",
                                     <<"Bad option acknowledgment packet.">>),
              pkt |-> NoPacket]
        ELSE [exc |-> NoExc, pkt |-> OptionsAcknowledgementPacket(build_from_strs(u.strs))]

\* decode_tftp_datagram on the bytes of a datagram.
decode_tftp_datagram_raw(raw) ==
    IF Len(raw) < 2 THEN [exc |-> StructError, pkt |-> NoPacket]
    ELSE LET opcode_value == unpack_H(raw)
         IN  IF opcode_value \notin OPCODE_MAP
             THEN [exc |-> OtherException("TypeError",
                                          <<"Unknown TFTP opcode: ">> \o PyStr(opcode_value)),
                   pkt |-> NoPacket]
             ELSE CASE opcode_value = RRQ_OPCODE -> RequestDecodeRaw("RRQ", raw)
                    [] opcode_value = WRQ_OPCODE -> RequestDecodeRaw("WRQ", raw)
                    [] opcode_value = DATA_OPCODE -> DataDecodeRaw(raw)
                    [] opcode_value = ACK_OPCODE -> AckDecodeRaw(raw)
                    [] opcode_value = ERROR_OPCODE -> ErrorDecodeRaw(raw)
                    [] opcode_value = OACK_OPCODE -> OackDecodeRaw(raw)

\* TFTPOption.encode, for each option of a list.
RECURSIVE OptionsEncode(_)
OptionsEncode(options) ==
    IF options = <<>> THEN <<>>
    ELSE pack_c_strs(<<Head(options).name, Head(options).value>>) \o OptionsEncode(Tail(options))

\* encode_tftp_datagram: the encode() of the packet's class.
encode_tftp_datagram(packet) ==
    CASE packet.op = "RRQ" ->
           pack_H(RRQ_OPCODE) \o pack_c_strs(<<packet.filename, packet.mode>>)
               \o OptionsEncode(packet.options)
      [] packet.op = "WRQ" ->
           pack_H(WRQ_OPCODE) \o pack_c_strs(<<packet.filename, packet.mode>>)
               \o OptionsEncode(packet.options)
      [] packet.op = "DATA" -> pack_H(DATA_OPCODE) \o pack_H(packet.block) \o packet.data
      [] packet.op = "ACK" -> pack_H(ACK_OPCODE) \o pack_H(packet.block)
      [] packet.op = "ERROR" ->
           pack_H(ERROR_OPCODE) \o pack_H(packet.code) \o pack_c_str(packet.msg)
      [] packet.op = "OACK" -> pack_H(OACK_OPCODE) \o OptionsEncode(packet.options)

\* ------------------------------------------- the codec called directly

\* No server is running: a function of the codec is called on its own.
ServerAbsent(p) ==
    /\ pc = p
    /\ shutdown_event = FALSE
    /\ escaped = NoExc
    /\ r_list = {}
    /\ todo = <<>>
    /\ session_map = EmptyMap
    /\ reactor = [fds |-> {}, open |-> FALSE]
    /\ server_socket = FALSE
    /\ write_factory = "disable_factory"
    /\ req = [c \in Clients |-> NoRequest]
    /\ faults = [c \in Clients |-> [odd |-> 0, idle |-> 0]]
    /\ listener_q = <<>>
    /\ sock_q = [c \in Clients |-> <<>>]
    /\ requested = {}
    /\ log = [c \in Clients |-> <<>>]

server_state == <<pc, shutdown_event, escaped, r_list, todo, session_map, reactor,
                  server_socket, write_factory, listener_q, sock_q, req, requested, faults,
                  log>>

\* The bytes of the datagrams: NUL, the letter a, a byte that is not ASCII.
WireBytes == {0, 97, 200}

BytesUpTo(alphabet, n) == UNION {[1..k -> alphabet] : k \in 0..n}

\* The datagrams handed to decode_tftp_datagram: none or one byte, or an
\* opcode (the six known ones and an unknown one) and up to MaxBody bytes.
RawDatagrams ==
    {<<>>, <<0>>}
    \cup {<<0, opcode>> \o body :
             opcode \in OPCODE_MAP \cup {9}, body \in BytesUpTo(WireBytes, MaxBody)}

InitCodec ==
    /\ ServerAbsent("codec")
    /\ \E raw \in RawDatagrams : codec = [stage |-> "raw", raw |-> raw]

\* decode_tftp_datagram(raw)
DecodeDatagram ==
    /\ pc = "codec"
    /\ codec.stage = "raw"
    /\ codec' = [stage |-> "decoded", raw |-> codec.raw,
                 decoded |-> decode_tftp_datagram_raw(codec.raw)]
    /\ UNCHANGED server_state

\* encode_tftp_datagram(packet) of the packet decode_tftp_datagram returned.
EncodePacket ==
    /\ pc = "codec"
    /\ codec.stage = "decoded"
    /\ ~Raised(codec.decoded.exc)
    /\ codec' = [stage |-> "encoded", raw |-> codec.raw, decoded |-> codec.decoded,
                 encoded |-> encode_tftp_datagram(codec.decoded.pkt)]
    /\ UNCHANGED server_state

NextCodec ==
    \/ DecodeDatagram
    \/ EncodePacket

SpecCodec == InitCodec /\ [][NextCodec]_vars

\* The NULs of a sequence of bytes, and its k-th NUL-terminated string.
NulCount(b) == Cardinality({i \in DOMAIN b : b[i] = 0})
NulAt(b, k) == CHOOSE i \in DOMAIN b : b[i] = 0 /\ Cardinality({j \in 1..i : b[j] = 0}) = k
StringAt(b, k) == SubSeq(b, IF k = 1 THEN 1 ELSE NulAt(b, k - 1) + 1, NulAt(b, k) - 1)

\* A sequence of NUL-terminated ASCII strings.
CStrings(b) == IsAscii(b) /\ (b = <<>> \/ b[Len(b)] = 0)

\* A well-formed datagram of a known opcode: a request of two ASCII strings
\* and pairs of option strings, each NUL-terminated; DATA of a block number and
\* any payload; ACK of a block number; ERROR of a code and one NUL-terminated
\* ASCII message; OACK of pairs of option strings.
WellFormedRaw(raw) ==
    /\ Len(raw) >= 2
    /\ raw[1] = 0
    /\ LET body == SubSeq(raw, 3, Len(raw))
       IN  CASE raw[2] \in {RRQ_OPCODE, WRQ_OPCODE} ->
                  CStrings(body) /\ NulCount(body) >= 2 /\ NulCount(body) % 2 = 0
             [] raw[2] = DATA_OPCODE -> Len(raw) >= 4
             [] raw[2] = ACK_OPCODE -> Len(raw) = 4
             [] raw[2] = ERROR_OPCODE ->
                  /\ Len(raw) >= 5
                  /\ CStrings(SubSeq(raw, 5, Len(raw)))
                  /\ NulCount(SubSeq(raw, 5, Len(raw))) = 1
             [] raw[2] = OACK_OPCODE -> CStrings(body) /\ NulCount(body) % 2 = 0
             [] OTHER -> FALSE

\* The options carried by the strings of b from the k-th on.
OptionsAt(b, k) ==
    [i \in 1..((NulCount(b) - k + 1) \div 2) |->
        TFTPOption(StringAt(b, k + 2 * i - 2), StringAt(b, k + 2 * i - 1))]

\* The packet a well-formed datagram carries.
Carried(raw) ==
    LET body == SubSeq(raw, 3, Len(raw))
        number == raw[3] * 256 + raw[4]
    IN  CASE raw[2] = RRQ_OPCODE ->
               [op |-> "RRQ", filename |-> StringAt(body, 1), mode |-> StringAt(body, 2),
                options |-> OptionsAt(body, 3)]
          [] raw[2] = WRQ_OPCODE ->
               [op |-> "WRQ", filename |-> StringAt(body, 1), mode |-> StringAt(body, 2),
                options |-> OptionsAt(body, 3)]
          [] raw[2] = DATA_OPCODE -> DataPacket(number, SubSeq(raw, 5, Len(raw)))
          [] raw[2] = ACK_OPCODE -> AcknowledgementPacket(number)
          [] raw[2] = ERROR_OPCODE -> ErrorPacket(number, SubSeq(raw, 5, Len(raw) - 1))
          [] raw[2] = OACK_OPCODE -> OptionsAcknowledgementPacket(OptionsAt(body, 1))

\* C17: for every well-formed datagram R of the six opcodes,
\* decode_tftp_datagram(R) is the packet of the variant the opcode names with
\* the field values R carries, and encode_tftp_datagram of it is R, byte for
\* byte.
C17_RoundTrip ==
    (codec.stage \in {"decoded", "encoded"} /\ WellFormedRaw(codec.raw)) =>
        /\ ~Raised(codec.decoded.exc)
        /\ codec.decoded.pkt = Carried(codec.raw)
        /\ codec.stage = "encoded" => codec.encoded = codec.raw

\* The read request of file "a", mode "a", option "a" with an empty value
\* was decoded and encoded again.
C17_Witness ==
    /\ codec.stage = "encoded"
    /\ codec.raw = <<0, 1, 97, 0, 97, 0, 97, 0, 0>>
    /\ codec.decoded.pkt.op = "RRQ"
    /\ codec.decoded.pkt.options = <<TFTPOption(<<97>>, <<>>)>>
    /\ codec.encoded = codec.raw

\* The malformed datagrams of C18: no bytes at all; an unknown opcode; a
\* request with fewer than two NUL-terminated strings or an odd number of
\* them; an ERROR whose message has no NUL.
MalformedRaw(raw) ==
    \/ raw = <<>>
    \/ /\ Len(raw) >= 2
       /\ LET opcode_value == unpack_H(raw)
              body == SubSeq(raw, 3, Len(raw))
          IN  \/ opcode_value \notin OPCODE_MAP
              \/ /\ opcode_value \in {RRQ_OPCODE, WRQ_OPCODE}
                 /\ NulCount(body) < 2 \/ NulCount(body) % 2 # 0
              \/ /\ opcode_value = ERROR_OPCODE
                 /\ Len(raw) >= 4
                 /\ NulCount(SubSeq(raw, 5, Len(raw))) = 0

\* C18 as the specification states it: decode_tftp_datagram fails on every
\* malformed datagram, and with one kind of error, the protocol error of the
\* codec, in each of the cases.
C18_AsStated ==
    (codec.stage = "decoded" /\ MalformedRaw(codec.raw)) =>
        /\ Raised(codec.decoded.exc)
        /\ codec.decoded.exc.kind = "TFTPInvalidProtocolException"

\* decode_tftp_datagram of a datagram of no bytes raised struct.error, not
\* the protocol error a request of one string raises.
C18_ZeroLength ==
    /\ codec.stage = "decoded"
    /\ codec.raw = <<>>
    /\ codec.decoded.exc.kind = "struct.error"
    /\ decode_tftp_datagram_raw(<<0, 1, 97, 0>>).exc.kind = "TFTPInvalidProtocolException"
    /\ decode_tftp_datagram_raw(<<0, 9>>).exc.kind = "TypeError"
    /\ decode_tftp_datagram_raw(<<0, 5, 0, 0, 97>>).exc.kind = "UnterminatedString"

\* -------------------------------------------------------------- netascii

CR == 13
LF == 10
NUL == 0

\* Whether the bytes of sep stand in payload at position i.
StandsAt(payload, i, sep) ==
    /\ i + Len(sep) - 1 <= Len(payload)
    /\ SubSeq(payload, i, i + Len(sep) - 1) = sep

\* A faulty to_netascii: a CR that is no line separator is sent as it is.
RECURSIVE ToNetasciiBareCR(_, _)
ToNetasciiBareCR(payload, sep) ==
    IF payload = <<>> THEN <<>>
    ELSE IF StandsAt(payload, 1, sep)
    THEN <<CR, LF>> \o ToNetasciiBareCR(SubSeq(payload, Len(sep) + 1, Len(payload)), sep)
    ELSE <<Head(payload)>> \o ToNetasciiBareCR(Tail(payload), sep)

\* to_netascii with _LINE_SEP = sep: re.sub goes through the payload from the
\* left; the line separator becomes CR LF, any other CR becomes CR NUL.
RECURSIVE to_netascii(_, _)
to_netascii(payload, sep) ==
    IF payload = <<>> THEN <<>>
    ELSE IF StandsAt(payload, 1, sep)
    THEN <<CR, LF>> \o to_netascii(SubSeq(payload, Len(sep) + 1, Len(payload)), sep)
    ELSE IF Head(payload) = CR THEN <<CR, NUL>> \o to_netascii(Tail(payload), sep)
    ELSE <<Head(payload)>> \o to_netascii(Tail(payload), sep)

\* from_netascii with _LINE_SEP = sep: CR LF becomes the line separator, CR
\* NUL becomes CR.
RECURSIVE from_netascii(_, _)
from_netascii(payload, sep) ==
    IF payload = <<>> THEN <<>>
    ELSE IF StandsAt(payload, 1, <<CR, LF>>)
    THEN sep \o from_netascii(SubSeq(payload, 3, Len(payload)), sep)
    ELSE IF StandsAt(payload, 1, <<CR, NUL>>)
    THEN <<CR>> \o from_netascii(SubSeq(payload, 3, Len(payload)), sep)
    ELSE <<Head(payload)>> \o from_netascii(Tail(payload), sep)

\* os.linesep of the host
LineSeps == {<<LF>>, <<CR, LF>>}

TextBytes == {CR, LF, NUL, 97}

InitNetascii ==
    /\ ServerAbsent("netascii")
    /\ \E x \in BytesUpTo(TextBytes, MaxText), sep \in LineSeps :
          codec = [stage |-> "host", sep |-> sep, raw |-> x]

\* to_netascii(x)
ToNetascii ==
    /\ pc = "netascii"
    /\ codec.stage = "host"
    /\ codec' = [stage |-> "netascii", sep |-> codec.sep, raw |-> codec.raw,
                 sent |-> to_netascii(codec.raw, codec.sep)]
    /\ UNCHANGED server_state

\* from_netascii(to_netascii(x))
FromNetascii ==
    /\ pc = "netascii"
    /\ codec.stage = "netascii"
    /\ codec' = [stage |-> "back", sep |-> codec.sep, raw |-> codec.raw, sent |-> codec.sent,
                 back |-> from_netascii(codec.sent, codec.sep)]
    /\ UNCHANGED server_state

NextNetascii ==
    \/ ToNetascii
    \/ FromNetascii

SpecNetascii == InitNetascii /\ [][NextNetascii]_vars

\* C19: for the line separator LF and for CR LF, and any bytes x that do not
\* end on a bare CR, from_netascii(to_netascii(x)) = x.
C19_NetasciiRoundTrip ==
    (/\ codec.stage = "back"
     /\ codec.raw = <<>> \/ codec.raw[Len(codec.raw)] # CR) =>
        codec.back = codec.raw

\* On a host of line separator CR LF, the bytes CR 'a' CR LF LF went out as
\* CR NUL 'a' CR LF LF and came back as they were.
C19_Witness ==
    /\ codec.stage = "back"
    /\ codec.sep = <<CR, LF>>
    /\ codec.raw = <<CR, 97, CR, LF, LF>>
    /\ codec.sent = <<CR, NUL, 97, CR, LF, LF>>
    /\ codec.back = codec.raw

\* C20 as the specification states it: on a READ session, the step on an ACK
\* whose block number is that of the last ACK recorded sends no DATA and leaves
\* the transfer state as it was.
C20_AsStated ==
    [][\A fd \in SessionFds :
          AckStep(fd) =>
             LET s == session_map[fd]
                 c == s.remote_addr
                 d == Head(sock_q[c])
             IN  (s.last_packet_received # None /\ d.block = s.last_packet_received) =>
                     /\ log'[c] = log[c] \o <<Received(d)>>
                     /\ session_map'[fd].last_packet_received = s.last_packet_received
                     /\ session_map'[fd].last_block_num = s.last_block_num
                     /\ session_map'[fd].final_block_sent = s.final_block_sent
                     /\ session_map'[fd].done = s.done
      ]_vars

\* ACK 1 arrived twice on a read of 1100 bytes: DATA 2 was sent after each,
\* the second time from step(), no timeout having been handled.
C20_Resent ==
    /\ ReadRequest("c1")
    /\ FileOf("c1") = "/big"
    /\ OptionsOf("c1") = <<>>
    /\ NoTimeout("c1")
    /\ Len(log["c1"]) = 6
    /\ SubSeq(log["c1"], 3, 6) =
          <<Received(AckDatagram(1)), Sent(DataPacket(2, [start |-> 512, len |-> 512])),
            Received(AckDatagram(1)), Sent(DataPacket(2, [start |-> 512, len |-> 512]))>>

\* ------------------------------------------------- packets out of sequence

\* The ACK number n lies outside the outstanding window of a READ session:
\* below last_ack_block or above highest_sent_block.
OutOfWindow(s, n) == n < LastAckBlock(s) \/ n > HighestSentBlock(s)

\* What the step of a session answered with ERROR(ILLEGAL_OP) leaves: the
\* datagram received, one ERROR of code 4 sent and nothing else, the session
\* done.
AnsweredIllegalOp(fd, c, d) ==
    /\ Len(log'[c]) = Len(log[c]) + 2
    /\ SubSeq(log'[c], 1, Len(log[c]) + 1) = log[c] \o <<Received(d)>>
    /\ IsError(Last(log'[c]))
    /\ Last(log'[c]).pkt.code = ILLEGAL_OP
    /\ session_map'[fd].done

\* C21 as the specification states it: on a READ session, the step on an ACK
\* whose block number is below last_ack_block or above highest_sent_block
\* sends ERROR(ILLEGAL_OP), marks the session done and sends no DATA.
C21_AsStated ==
    [][\A fd \in SessionFds :
          AckStep(fd) =>
             LET s == session_map[fd]
                 c == s.remote_addr
                 d == Head(sock_q[c])
             IN  OutOfWindow(s, d.block) => AnsweredIllegalOp(fd, c, d)
      ]_vars

\* On a read of 1100 bytes without options, ACK 0 arrived after ACK 1 had
\* been recorded (last_ack_block 1, highest_sent_block 2): DATA 1 was sent
\* again, no ERROR, and the session goes on.
C21_StaleAckServed ==
    /\ ReadRequest("c1")
    /\ FileOf("c1") = "/big"
    /\ OptionsOf("c1") = <<>>
    /\ NoTimeout("c1")
    /\ Len(log["c1"]) = 6
    /\ SubSeq(log["c1"], 3, 6) =
          <<Received(AckDatagram(1)), Sent(DataPacket(2, [start |-> 512, len |-> 512])),
            Received(AckDatagram(0)), Sent(DataPacket(1, [start |-> 0, len |-> 512]))>>
    /\ HasSession(session_map, "c1")
    /\ ~session_map[FdOf(session_map, "c1")].done

\* C22 as the specification states it: a READ session that is done while no
\* ERROR was sent to its client was completed by the ACK of the final block of
\* its file, the block shorter than block_size.
C22_AsStated ==
    \A fd \in DOMAIN session_map :
        LET s == session_map[fd]
            c == s.remote_addr
        IN  (s.mode = "read" /\ s.done /\ ErrorsSent(c) = <<>>) =>
               /\ Heard(c) # <<>>
               /\ Last(Heard(c)).pkt = AckDatagram(FinalBlock(s))

\* A read of 1100 bytes in three blocks, one block at a time: after DATA 3,
\* the short block, was sent, a stale ACK 0 made the server send DATA 1 again,
\* and the ACK of that DATA 1 completed the session: done, no ERROR sent, the
\* blocks 2 and 3 of the second pass never sent, block 3 never acknowledged.
C22_DoneOnNonFinalAck ==
    /\ pc = "sweep"
    /\ ReadRequest("c1")
    /\ FileOf("c1") = "/big"
    /\ OptionsOf("c1") = <<>>
    /\ HasSession(session_map, "c1")
    /\ LET s == session_map[FdOf(session_map, "c1")]
       IN  /\ s.done
           /\ s.final_block_sent
           /\ s.last_block_num = 1
           /\ FinalBlock(s) = 3
    /\ ErrorsSent("c1") = <<>>
    /\ NoTimeout("c1")
    /\ Len(Heard("c1")) = 4
    /\ Heard("c1")[3].pkt = AckDatagram(0)
    /\ Heard("c1")[4].pkt = AckDatagram(1)
    /\ \A i \in 1..Len(Heard("c1")) : Heard("c1")[i].pkt # AckDatagram(3)

\* The step of a WRITE session on a DATA datagram.
DataStep(fd) ==
    /\ pc = "step"
    /\ Head(todo) = fd
    /\ fd \in DOMAIN session_map
    /\ LET s == session_map[fd]
       IN  /\ s.mode = "write"
           /\ ~s.done
           /\ sock_q[s.remote_addr] # <<>>
           /\ "opcode" \in DOMAIN Head(sock_q[s.remote_addr])
           /\ Head(sock_q[s.remote_addr]).opcode = DATA_OPCODE

\* The positions of the log where a DATA block was accepted: it was received
\* and its payload handed to handler.write().
AcceptedAt(c) ==
    {j \in 1..(Len(log[c]) - 1) :
        /\ log[c][j].ev = "recv"
        /\ "opcode" \in DOMAIN log[c][j].pkt
        /\ log[c][j].pkt.opcode = DATA_OPCODE
        /\ log[c][j + 1].ev = "write"}

\* last_data_block as the client sees it: the number of the DATA block the
\* server accepted last, 0 when it accepted none.
LastAcceptedBlock(c) ==
    IF AcceptedAt(c) = {} THEN 0
    ELSE log[c][CHOOSE j \in AcceptedAt(c) : \A k \in AcceptedAt(c) : k <= j].pkt.block

\* The payloads handed to handler.write(), in order.
Written(c) == SelectSeq(log[c], LAMBDA e : e.ev = "write")

\* C23 as the specification states it: in a WRITE session, the step on a DATA
\* whose block number is that of the block accepted last sends the ACK of that
\* block again and hands nothing to handler.write().
C23_AsStated ==
    [][\A fd \in SessionFds :
          DataStep(fd) =>
             LET s == session_map[fd]
                 c == s.remote_addr
                 d == Head(sock_q[c])
             IN  (AcceptedAt(c) # {} /\ d.block = LastAcceptedBlock(c)) =>
                     log'[c] = log[c] \o <<Received(d), Sent(AcknowledgementPacket(d.block))>>
      ]_vars

\* DATA 1 of a write without options arrived twice: its payload was handed to
\* handler.write() both times and ACK 0 was sent after each.
C23_WrittenTwice ==
    /\ WriteRequest("c1")
    /\ OptionsOf("c1") = <<>>
    /\ Len(Written("c1")) = 2
    /\ Written("c1")[1] = Written("c1")[2]
    /\ Len(Heard("c1")) = 2
    /\ Heard("c1")[1].pkt = DataDatagram(1, 512)
    /\ Heard("c1")[2].pkt = DataDatagram(1, 512)
    /\ Last(log["c1"]) = Sent(AcknowledgementPacket(0))
    /\ ErrorsSent("c1") = <<>>

\* C24 as the specification states it: in a WRITE session, the step on a DATA
\* whose block number is neither that of the block accepted last nor the one
\* after it sends ERROR(ILLEGAL_OP), marks the session done and hands nothing
\* to handler.write().
C24_AsStated ==
    [][\A fd \in SessionFds :
          DataStep(fd) =>
             LET s == session_map[fd]
                 c == s.remote_addr
                 d == Head(sock_q[c])
             IN  (d.block # LastAcceptedBlock(c) /\ d.block # LastAcceptedBlock(c) + 1) =>
                     AnsweredIllegalOp(fd, c, d)
      ]_vars

\* DATA 2 arrived on a write without options whose last ACK was the ACK 0 of
\* the request: nothing was sent in answer and the session is not done.
C24_Dropped ==
    /\ pc = "sweep"
    /\ WriteRequest("c1")
    /\ OptionsOf("c1") = <<>>
    /\ Len(Heard("c1")) = 1
    /\ Last(log["c1"]) = Received(DataDatagram(2, 3))
    /\ Written("c1") = <<>>
    /\ ErrorsSent("c1") = <<>>
    /\ HasSession(session_map, "c1")
    /\ ~session_map[FdOf(session_map, "c1")].done

\* C25 as the specification states it: in a WRITE session whose client sends
\* its DATA blocks in order, the step on the block that follows the one
\* accepted last and is shorter than block_size writes it, sends an ACK and
\* no ERROR, and marks the session done, so that the sweep reaps it.
C25_AsStated ==
    [][\A fd \in SessionFds :
          DataStep(fd) =>
             LET s == session_map[fd]
                 c == s.remote_addr
                 d == Head(sock_q[c])
             IN  (/\ d.block = LastAcceptedBlock(c) + 1
                  /\ d.data.len < s.block_size
                  /\ ~Raised(s.handler.write_exc)) =>
                     /\ Written(c)' = Append(Written(c), Wrote(d.data))
                     /\ ErrorsSent(c)' = <<>>
                     /\ session_map'[fd].done
      ]_vars

\* A write without options whose only block, DATA 1 of 3 bytes, was written
\* and answered with an ACK: the loop is back at its poll after the sweep and
\* the session is still on the map, not done.
C25_NeverDone ==
    /\ pc = "poll"
    /\ WriteRequest("c1")
    /\ OptionsOf("c1") = <<>>
    /\ Len(log["c1"]) = 5
    /\ SubSeq(log["c1"], 3, 5) =
          <<Received(DataDatagram(1, 3)), Wrote(DataDatagram(1, 3).data),
            Sent(AcknowledgementPacket(0))>>
    /\ HasSession(session_map, "c1")
    /\ ~session_map[FdOf(session_map, "c1")].done

\* The step of a session on a datagram that decodes to a packet of the wrong
\* type for its direction: no ACK on a READ session, no DATA on a WRITE
\* session.
WrongTypeStep(fd) ==
    /\ pc = "step"
    /\ Head(todo) = fd
    /\ fd \in DOMAIN session_map
    /\ LET s == session_map[fd]
       IN  /\ ~s.done
           /\ sock_q[s.remote_addr] # <<>>
           /\ LET decoded == decode_tftp_datagram(Head(sock_q[s.remote_addr]))
              IN  /\ ~Raised(decoded.exc)
                  /\ \/ s.mode = "read" /\ decoded.pkt.op # "ACK"
                     \/ s.mode = "write" /\ decoded.pkt.op # "DATA"

\* C26: the step of a READ session on a packet that is no ACK, and of a WRITE
\* session on a packet that is no DATA, sends ERROR(ILLEGAL_OP) and nothing
\* else, and marks the session done.
C26_WrongTypeIsIllegalOp ==
    [][\A fd \in SessionFds :
          WrongTypeStep(fd) =>
             LET c == session_map[fd].remote_addr
             IN  AnsweredIllegalOp(fd, c, Head(sock_q[c]))
      ]_vars

\* A WRITE session opened after an OACK received an ACK, and a done session
\* whose last packet is ERROR(ILLEGAL_OP) waits for the sweep.
C26_Witness ==
    /\ pc = "sweep"
    /\ WriteRequest("c1")
    /\ OacksSent("c1") # <<>>
    /\ Len(Heard("c1")) = 1
    /\ Heard("c1")[1].pkt = AckDatagram(0)
    /\ Last(log["c1"]) =
          Sent(ErrorPacket(ILLEGAL_OP, <<"Did not receive expected DATA packet.">>))
    /\ session_map[FdOf(session_map, "c1")].done

\* ---------------------------------------------------------- retransmission

\* The sweep finds the session of fd timed out with retries left.
TimeoutStep(fd) ==
    /\ pc = "sweep"
    /\ Head(todo) = fd
    /\ fd \in DOMAIN session_map
    /\ session_map[fd].idle
    /\ ~session_map[fd].done
    /\ session_map[fd].retries < session_map[fd].max_retries

\* The ACK packets sent to a client, in order.
AcksSent(c) == SelectSeq(log[c], LAMBDA e : e.ev = "send" /\ e.pkt.op = "ACK")

\* C27 as the specification states it: timeout_handler with
\* retries < max_retries adds one to retries and sends the outstanding unit
\* again: on a READ session that has sent DATA, the window of DATA blocks that
\* follows last_ack_block (the handler's read() not failing); on a WRITE
\* session that has sent an ACK, its most recent ACK.
C27_AsStated ==
    [][\A fd \in SessionFds :
          TimeoutStep(fd) =>
             LET s == session_map[fd]
                 c == s.remote_addr
                 resent == IF s.mode = "read" THEN SentAll(WindowAfter(s, LastAckBlock(s)))
                           ELSE <<Last(AcksSent(c))>>
             IN  (\/ /\ s.mode = "read"
                     /\ DataSent(c) # <<>>
                     /\ ~Raised(WindowRaises(s.handler, LastAckBlock(s), s.block_size,
                                             s.window_size))
                  \/ /\ s.mode = "write"
                     /\ AcksSent(c) # <<>>) =>
                     /\ fd \in DOMAIN session_map'
                     /\ session_map'[fd].retries = s.retries + 1
                     /\ log'[c] = log[c] \o <<Call("timeout")>> \o resent
      ]_vars

\* A write without options timed out after its DATA 1 was written and
\* answered with an ACK: no ACK was sent again; the AttributeError of
\* timeout_handler has left serve_forever, which closed the session.
C27_WriteTimeoutCrash ==
    /\ pc = "exited"
    /\ escaped.kind = "AttributeError"
    /\ WriteRequest("c1")
    /\ OptionsOf("c1") = <<>>
    /\ Len(AcksSent("c1")) = 2
    /\ Len(Written("c1")) = 1
    /\ Len(log["c1"]) = 8
    /\ SubSeq(log["c1"], 5, 8) =
          <<Sent(AcknowledgementPacket(0)), Call("timeout"), Call("close"), Call("sock_close")>>

\* The timeouts of a client's session the sweep has handled.
Timeouts(c) == SelectSeq(log[c], LAMBDA e : e.ev = "timeout")

\* C28 as the specification states it: a retransmission counts as activity.
\* A session that the sweep found timed out and that sent its outstanding unit
\* again is no longer timed out: a further timeout period has to go by before
\* timeout_handler is called again.
C28_AsStated ==
    [][\A fd \in SessionFds :
          (TimeoutStep(fd) /\ fd \in DOMAIN session_map') => ~session_map'[fd].idle
      ]_vars

\* One timeout period went by on a read of 1100 bytes after ACK 1: the sweeps
\* of four iterations of the loop in a row sent DATA 2 three times and then
\* ERROR(0, "Session timed out."), no packet of the client in between.
C28_BackToBack ==
    /\ ReadRequest("c1")
    /\ FileOf("c1") = "/big"
    /\ OptionsOf("c1") = <<>>
    /\ faults["c1"].idle = 1
    /\ Len(Heard("c1")) = 1
    /\ Len(Timeouts("c1")) = 4
    /\ Len(log["c1"]) >= 12
    /\ SubSeq(log["c1"], 3, 12) =
          <<Received(AckDatagram(1)), Sent(DataPacket(2, [start |-> 512, len |-> 512])),
            Call("timeout"), Sent(DataPacket(2, [start |-> 512, len |-> 512])),
            Call("timeout"), Sent(DataPacket(2, [start |-> 512, len |-> 512])),
            Call("timeout"), Sent(DataPacket(2, [start |-> 512, len |-> 512])),
            Call("timeout"), Sent(ErrorPacket(NOT_DEFINED, <<"Session timed out.">>))>>

\* The step of a session on a datagram that decode_tftp_datagram rejects.
UndecodableStep(fd) ==
    /\ pc = "step"
    /\ Head(todo) = fd
    /\ fd \in DOMAIN session_map
    /\ ~session_map[fd].done
    /\ sock_q[session_map[fd].remote_addr] # <<>>
    /\ Raised(decode_tftp_datagram(Head(sock_q[session_map[fd].remote_addr])).exc)

\* C29 as the specification states it: the step on a datagram that cannot be
\* decoded (unknown opcode, too short for an opcode) sends an ERROR of code
\* ILLEGAL_OP (4) and marks the session done.
C29_AsStated ==
    [][\A fd \in SessionFds :
          UndecodableStep(fd) =>
             LET c == session_map[fd].remote_addr
             IN  AnsweredIllegalOp(fd, c, Head(sock_q[c]))
      ]_vars

\* A datagram of opcode 9 arrived on a READ session: the session is done and
\* the ERROR sent for it has code 0 (NOT_DEFINED).
C29_NotDefinedSent ==
    /\ pc = "sweep"
    /\ ReadRequest("c1")
    /\ Len(Heard("c1")) = 1
    /\ Heard("c1")[1].pkt = UnknownDatagram
    /\ Last(log["c1"]) = Sent(ErrorPacket(NOT_DEFINED, <<"Unknown TFTP opcode: ", "9">>))
    /\ session_map[FdOf(session_map, "c1")].done

\* ------------------------------------------------------ sends that fail

\* The errors the sends of a session socket raise once the client's port is
\* closed or the route to the client is lost: the error of the first send that
\* follows, and of the second where the error outlasts one send.
SendErrors ==
    {<<ConnectionRefused>>, <<ConnectionRefused, ConnectionRefused>>, <<NetworkUnreachable>>}

\* The requests of the specification of failing sends: a read answered with
\* DATA, with an OACK, with the ERROR of a refused option, with the ERROR of a
\* handler that fails; a write answered with ACK 0; a datagram that is no
\* request.
RefusedRequests ==
    {Request(RRQ_OPCODE, "/foobar", <<>>),
     Request(RRQ_OPCODE, "/big", Opt("windowsize", <<"2">>)),
     Request(RRQ_OPCODE, "/foobar", Opt("blksize", <<"4">>)),
     Request(RRQ_OPCODE, "/missing", <<>>),
     Request(WRQ_OPCODE, "/upload", <<>>),
     AckDatagram(0)}

InitRefused ==
    /\ pc = "poll"
    /\ shutdown_event = FALSE
    /\ escaped = NoExc
    /\ r_list = {}
    /\ todo = <<>>
    /\ session_map = EmptyMap
    /\ reactor = [fds |-> {LISTENER_FD}, open |-> TRUE]
    /\ server_socket = TRUE
    /\ \E r \in RefusedRequests :
          /\ req = [c \in Clients |-> IF c = "c1" THEN r ELSE NoRequest]
          /\ write_factory = (IF r.opcode = WRQ_OPCODE THEN "accept_factory"
                              ELSE "disable_factory")
    /\ faults = [c \in Clients |-> [odd |-> 0, idle |-> 0, refused |-> FALSE]]
    /\ listener_q = <<>>
    /\ sock_q = [c \in Clients |-> <<>>]
    /\ requested = {}
    /\ log = [c \in Clients |-> <<>>]
    /\ codec = NoCodec

\* A client sends its request and is gone: the sends of the session's socket
\* to it raise errs.
ClientRequestThenGone(c, errs) ==
    /\ UNCHANGED codec
    /\ pc = "poll"
    /\ c \notin requested
    /\ req[c] # NoRequest
    /\ requested' = requested \cup {c}
    /\ listener_q' = Append(listener_q, [from |-> c, dgram |-> req[c], send_errors |-> errs])
    /\ faults' = [faults EXCEPT ![c].refused = TRUE]
    /\ UNCHANGED <<server_vars, sock_q, req, log>>

\* The client of a running session is gone: the next sends of the session's
\* socket raise errs.
RouteFails(fd, errs) ==
    /\ UNCHANGED codec
    /\ pc = "poll"
    /\ fd \in DOMAIN session_map
    /\ ~faults[session_map[fd].remote_addr].refused
    /\ session_map' = [session_map EXCEPT ![fd].send_errors = errs]
    /\ faults' = [faults EXCEPT ![session_map[fd].remote_addr].refused = TRUE]
    /\ UNCHANGED <<pc, shutdown_event, escaped, r_list, todo, reactor, server_socket,
                   write_factory, listener_q, sock_q, req, requested, log>>

NextRefused ==
    \/ \E c \in Clients : ClientRequest(c)
    \/ \E c \in Clients, errs \in SendErrors : ClientRequestThenGone(c, errs)
    \/ \E c \in Clients, d \in ClientDatagrams : ClientSend(c, d)
    \/ \E fd \in SessionFds, errs \in SendErrors : RouteFails(fd, errs)
    \/ \E fd \in SessionFds : TimePasses(fd)
    \/ Shutdown
    \/ Poll
    \/ Exit
    \/ Accept
    \/ StepSession
    \/ SweepSession

SpecRefused == InitRefused /\ [][NextRefused]_vars

\* A send of the call that left result r on session s raised: an error that
\* waited on the socket is gone.
SendFailed(s, r) == Len(r.s.send_errors) < Len(s.send_errors)

\* The call under way, if it is a setup(), a step() or a timeout_handler():
\* the client, the session it started on and its result.
CallUnderWay ==
    IF pc = "accept"
    THEN LET m == Head(listener_q)
             s0 == [NewSession(m.from) EXCEPT !.send_errors = SendErrorsOf(m)]
         IN  [any |-> TRUE, c |-> m.from, s |-> s0, heard |-> <<>>,
              r |-> SetupOn(s0, m.dgram, write_factory)]
    ELSE IF pc = "step" /\ Head(todo) \in DOMAIN session_map /\ ~session_map[Head(todo)].done
    THEN LET s == session_map[Head(todo)]
             d == Head(sock_q[s.remote_addr])
         IN  [any |-> TRUE, c |-> s.remote_addr, s |-> s, heard |-> <<Received(d)>>,
              r |-> step(s, d)]
    ELSE IF pc = "sweep" /\ session_map[Head(todo)].idle
    THEN LET s == session_map[Head(todo)]
         IN  [any |-> TRUE, c |-> s.remote_addr, s |-> s, heard |-> <<Call("timeout")>>,
              r |-> timeout_handler(s)]
    ELSE [any |-> FALSE]

\* C30 as the specification states it: when a send raises an I/O error in
\* setup(), in step() or in timeout_handler(), the call returns with the
\* session marked done and nothing more is sent for that session, no ERROR in
\* particular; the loop goes on.
C30_AsStated ==
    [][LET call == CallUnderWay
       IN  (call.any /\ SendFailed(call.s, call.r)) =>
               /\ pc' # "exited"
               /\ call.r.s.done
               /\ SentIn(log'[call.c]) = SentIn(log[call.c])
      ]_vars

\* The client of a write was gone when its DATA 1 was handled: the payload
\* was written, the send of the ACK raised ConnectionRefusedError, and step()
\* sent ERROR(0, "[Errno 111] Connection refused") for it.
C30_ErrorAfterRefusal ==
    /\ pc = "sweep"
    /\ WriteRequest("c1")
    /\ faults["c1"].refused
    /\ Len(log["c1"]) = 5
    /\ SubSeq(log["c1"], 3, 5) =
          <<Received(DataDatagram(1, 512)), Wrote(DataDatagram(1, 512).data),
            Sent(ErrorPacket(NOT_DEFINED, <<"[Errno 111] Connection refused">>))>>
    /\ session_map[FdOf(session_map, "c1")].done
    /\ session_map[FdOf(session_map, "c1")].send_errors = <<>>

\* ------------------------------------------------------ two sessions

\* The requests of the specification of two clients: a read of one block, a
\* read of a window of two blocks out of three, a write that is refused, a
\* datagram that is no request.
PairRequests ==
    {Request(RRQ_OPCODE, "/foobar", <<>>),
     Request(RRQ_OPCODE, "/big", Opt("windowsize", <<"2">>)),
     Request(WRQ_OPCODE, "/upload", <<>>),
     UnknownDatagram}

\* A client of the pair answers the packet its session sent it last.
ClientAnswers(c) == \E d \in Expected(c) : ClientSend(c, d)

InitPair ==
    /\ pc = "poll"
    /\ shutdown_event = FALSE
    /\ escaped = NoExc
    /\ r_list = {}
    /\ todo = <<>>
    /\ session_map = EmptyMap
    /\ reactor = [fds |-> {LISTENER_FD}, open |-> TRUE]
    /\ server_socket = TRUE
    /\ req \in [Clients -> PairRequests]
    /\ write_factory = "disable_factory"
    /\ faults = [c \in Clients |-> [odd |-> 0, idle |-> 0]]
    /\ listener_q = <<>>
    /\ sock_q = [c \in Clients |-> <<>>]
    /\ requested = {}
    /\ log = [c \in Clients |-> <<>>]
    /\ codec = NoCodec

NextPair ==
    \/ \E c \in Clients : ClientRequest(c)
    \/ \E c \in Clients : ClientAnswers(c)
    \/ \E fd \in SessionFds : TimePasses(fd)
    \/ Shutdown
    \/ Poll
    \/ Exit
    \/ Accept
    \/ StepSession
    \/ SweepSession

SpecPair == InitPair /\ [][NextPair]_vars

\* The fds the for loop over r_list has still to visit.
ToVisit == {todo[i] : i \in DOMAIN todo}

\* Every session the poll reported readable is either still to be visited by
\* the for loop, once, with its datagram waiting, or has been stepped: its
\* datagram was read.
ReadyAccounted ==
    pc \in {"accept", "step", "sweep"} =>
       /\ pc = "step" => ToVisit \subseteq (r_list \ {LISTENER_FD}) \cap DOMAIN session_map
       /\ \A fd \in (r_list \ {LISTENER_FD}) \cap DOMAIN session_map :
             LET c == session_map[fd].remote_addr
             IN  IF pc = "accept" \/ (pc = "step" /\ fd \in ToVisit)
                 THEN /\ Len(sock_q[c]) = 1
                      /\ pc = "step" => Cardinality({i \in DOMAIN todo : todo[i] = fd}) = 1
                 ELSE sock_q[c] = <<>>

\* A turn of the for loop over r_list that finds the fd in the session map.
StepTurn == pc = "step" /\ Head(todo) \in DOMAIN session_map

\* C31: in one iteration of the loop every session whose fd the poll reported
\* readable is stepped exactly once before the loop polls again.  Until its
\* turn the datagram of a ready session waits and its fd is once in what the
\* for loop has still to visit; its turn reads that one datagram, touches no
\* other session and takes the fd off what is left to visit; when the sweep
\* starts, and so before the next poll, no ready session has its datagram
\* still waiting.
C31_SteppedOnce ==
    [][/\ ReadyAccounted'
       /\ (StepTurn /\ pc' # "exited") =>
             \A fd \in {Head(todo)} : \A c \in {session_map[fd].remote_addr} :
                 /\ Heard(c)' = Append(Heard(c), Received(Head(sock_q[c])))
                 /\ \A o \in Clients \ {c} : log'[o] = log[o]
                 /\ pc' = "step" => fd \notin ToVisit'
                 /\ pc' \in {"step", "sweep"}
      ]_vars

\* Two sessions were reported readable by one poll and both have been
\* stepped: the sweep is about to start and each has read its one datagram.
C31_Witness ==
    /\ pc = "sweep"
    /\ r_list = {1, 2}
    /\ todo = <<1, 2>>
    /\ DOMAIN session_map = {1, 2}
    /\ \A c \in Clients : sock_q[c] = <<>> /\ Len(Heard(c)) = 1

\* ------------------------------------------------ negotiated values

\* The values in lo..hi that the options called name of the request of
\* client c ask for.
InRangeValues(c, name, lo, hi) ==
    IF ReadRequest(c) \/ WriteRequest(c)
    THEN {PyInt(OptionsOf(c)[i].value).val :
             i \in {j \in DOMAIN OptionsOf(c) :
                       /\ Lower(OptionsOf(c)[j].name) = name
                       /\ InRange(OptionsOf(c)[j].value, lo, hi)}}
    ELSE {}

\* C32: in every state of every session block_size is within 8..65464,
\* window_size within 1..65535 and a timeout that is not the default within
\* 1..255; each is its default (512, 1, the server's timeout) or a value in
\* range that an option of the request asked for, so that an option out of
\* range, an option with no integer value and a windowsize on a write change
\* none of them.
C32_ValuesInRange ==
    \A fd \in DOMAIN session_map :
        LET s == session_map[fd]
            c == s.remote_addr
        IN  /\ s.block_size \in 8..65464
            /\ s.block_size \in {512} \cup InRangeValues(c, "blksize", 8, 65464)
            /\ s.window_size \in 1..65535
            /\ s.window_size \in
                  {1} \cup (IF ReadRequest(c) THEN InRangeValues(c, "windowsize", 1, 65535)
                            ELSE {})
            /\ s.timeout # DEFAULT_TIMEOUT => s.timeout \in 1..255
            /\ s.timeout \in {DEFAULT_TIMEOUT} \cup InRangeValues(c, "timeout", 1, 255)

\* A read asked with blksize=65465 and windowsize=2: the block size out of
\* range was answered with ERROR 4 and left block_size at 512; the window
\* size in range was stored.
C32_Witness ==
    /\ ReadRequest("c1")
    /\ OptionsOf("c1") = <<TFTPOption("blksize", Chars(65465)),
                           TFTPOption("windowsize", <<"2">>)>>
    /\ HasSession(session_map, "c1")
    /\ IllegalOpSent("c1")
    /\ session_map[FdOf(session_map, "c1")].block_size = 512
    /\ session_map[FdOf(session_map, "c1")].window_size = 2
    /\ session_map[FdOf(session_map, "c1")].timeout = DEFAULT_TIMEOUT

\* ------------------------------------------------- long transfers

\* The transfers of the specification of long reads: the block size, the
\* window size and the options that asked for them.
LongTransfers ==
    {[bs |-> 512, w |-> 1, options |-> <<>>],
     [bs |-> 8, w |-> 1, options |-> Opt("blksize", <<"8">>)],
     [bs |-> 8, w |-> 2, options |-> Opt("blksize", <<"8">>) \o Opt("windowsize", <<"2">>)]}

\* The number of blocks the file of a long read needs: full blocks and a
\* final block of 3 bytes.
LongBlocks == {65535, 65536, 65537}

\* What the client of a long read may send its session.
LongDatagrams == {AckDatagram(0), AckDatagram(65534), AckDatagram(65535)}

\* A read under way on session fd 1, the client having acknowledged in order:
\* the session as step() left it when it sent the window that ends with block
\* k, the log holding that window.
InitLong ==
    /\ pc = "poll"
    /\ shutdown_event = FALSE
    /\ escaped = NoExc
    /\ r_list = {}
    /\ todo = <<>>
    /\ reactor = [fds |-> {LISTENER_FD, 1}, open |-> TRUE]
    /\ server_socket = TRUE
    /\ write_factory = "disable_factory"
    /\ faults = [c \in Clients |-> [odd |-> 0, idle |-> 0]]
    /\ listener_q = <<>>
    /\ sock_q = [c \in Clients |-> <<>>]
    /\ requested = {"c1"}
    /\ codec = NoCodec
    /\ \E t \in LongTransfers, n \in LongBlocks, k \in {65534, 65535} :
          LET h == GoodFile((n - 1) * t.bs + 3)
              block(b) == DataPacket(b, HandlerRead(h, (b - 1) * t.bs, b * t.bs).data)
          IN  /\ req = [c \in Clients |->
                          IF c = "c1" THEN Request(RRQ_OPCODE, "/long", t.options)
                          ELSE NoRequest]
              /\ session_map =
                    MapWith(EmptyMap, 1,
                            [NewSession("c1") EXCEPT
                                !.mode = "read", !.handler = h, !.block_size = t.bs,
                                !.window_size = t.w, !.last_packet_received = k - t.w,
                                !.last_block_num = k, !.final_block_sent = (k = n)])
              /\ log = [c \in Clients |->
                          IF c = "c1" THEN [i \in 1..t.w |-> Sent(block(k - t.w + i))]
                          ELSE <<>>]

NextLong ==
    \/ \E c \in Clients, d \in LongDatagrams : ClientSend(c, d)
    \/ \E fd \in SessionFds : TimePasses(fd)
    \/ Shutdown
    \/ Poll
    \/ Exit
    \/ StepSession
    \/ SweepSession

SpecLong == InitLong /\ [][NextLong]_vars

\* C33 as the specification states it: a read that needs more than 65535
\* blocks goes on past block 65535 with the block number wrapping around.
\* When the ACK of block 65535 is stepped on a session whose block 65535 was
\* not the final one, the session stays open and the next DATA packet goes
\* out numbered 65536 mod 2^16 = 0, with the bytes that follow block 65535.
C33_AsStated ==
    [][\A fd \in SessionFds :
          AckStep(fd) =>
             \A s \in {session_map[fd]} : \A c \in {session_map[fd].remote_addr} :
                (/\ Head(sock_q[c]).block = 65535
                 /\ s.last_block_num = 65535
                 /\ ~s.final_block_sent) =>
                    /\ pc' # "exited"
                    /\ ~session_map'[fd].done
                    /\ Len(log'[c]) >= Len(log[c]) + 2
                    /\ log'[c][Len(log[c]) + 1] = Received(Head(sock_q[c]))
                    /\ log'[c][Len(log[c]) + 2] =
                          Sent(DataPacket(65536 % 65536,
                                          HandlerRead(s.handler, 65535 * s.block_size,
                                                      65536 * s.block_size).data))
      ]_vars

\* A read of 65536 blocks of 512 bytes: block 65535 was sent and acknowledged,
\* and the answer to that ACK was ERROR 0 with the message of struct.error;
\* the session is done, block 65536 was never sent.
C33_ErrorAtWrap ==
    /\ HasSession(session_map, "c1")
    /\ session_map[FdOf(session_map, "c1")].block_size = 512
    /\ session_map[FdOf(session_map, "c1")].handler.length = 65535 * 512 + 3
    /\ session_map[FdOf(session_map, "c1")].done
    /\ session_map[FdOf(session_map, "c1")].last_block_num = 65535
    /\ Len(log["c1"]) >= 3
    /\ SubSeq(log["c1"], Len(log["c1"]) - 2, Len(log["c1"])) =
          <<Sent(DataPacket(65535, [start |-> 65534 * 512, len |-> 512])),
            Received(AckDatagram(65535)),
            Sent(ErrorPacket(NOT_DEFINED, <<"'H' format requires 0 <= number <= 65535">>))>>

\* ------------------------------------------------- the last datagram

\* C34 as the specification states it: an ERROR is the last datagram a
\* session sends.  Whatever a session has sent, an ERROR among it is its last
\* packet: no OACK, DATA, ACK or second ERROR follows it.
C34_AsStated ==
    \A c \in Clients :
        \A i \in DOMAIN Wire(c) : IsError(Wire(c)[i]) => i = Len(Wire(c))

\* A read asked with timeout=0 and windowsize=2: setup() sent ERROR 4 for
\* the timeout, went on with the next option and sent an OACK that accepts
\* the window size.
C34_OackAfterError ==
    /\ ReadRequest("c1")
    /\ OptionsOf("c1") = <<TFTPOption("timeout", <<"0">>), TFTPOption("windowsize", <<"2">>)>>
    /\ Wire("c1") =
          <<Sent(ErrorPacket(ILLEGAL_OP, <<"Invalid timeout: ", "0">>)),
            Sent(OptionsAcknowledgementPacket(<<TFTPOption("windowsize", <<"2">>)>>))>>

\* ------------------------------------------------- exceptions that escape

\* C35 as the specification states it: no datagram on the listener, no
\* datagram on a session socket and no timeout of a session makes
\* serve_forever exit: it exits only once shutdown was requested.
C35_AsStated == pc = "exited" => shutdown_event

\* A datagram of opcode 9 arrived on the listener: decode_tftp_datagram raised
\* TypeError in setup(), which closed the new socket and raised it again, and
\* serve_forever has exited through its finally clause with no shutdown
\* requested.
C35_ExitOnUnknownOpcode ==
    /\ req["c1"] = UnknownDatagram
    /\ pc = "exited"
    /\ ~shutdown_event
    /\ escaped = OtherException("TypeError", <<"Unknown TFTP opcode: ", "9">>)
    /\ log["c1"] = <<Call("sock_close")>>
    /\ ~server_socket

\* ------------------------------------------------- reactor and session map

====
